---------------------------- MODULE Spec2Model ----------------------------
(***************************************************************************)
(* Issue-type classifier and comment/body based issue hierarchy of the     *)
(* GitHub Projects MCP server (src/src/index.ts).                          *)
(*                                                                         *)
(* Text is modelled character by character: a text is a sequence of        *)
(* one-character strings, so substring tests, the regular expressions and  *)
(* the number <-> decimal conversions are computed as the code computes    *)
(* them.                                                                   *)
(***************************************************************************)
EXTENDS Integers, Sequences, FiniteSets, TLC

VARIABLES
    input,   \* arguments of the call under study (drawn at Init)
    issues,  \* the repository: issue number -> issue (GitHub's state)
    last,    \* what the last tool call did and returned
    ops      \* number of tool calls made so far

vars == <<input, issues, last, ops>>

-----------------------------------------------------------------------------
(* Bounds of the model *)

\* words in a title drawn for the classifier
MaxTitleWords == 2
\* children in a list drawn for the sort
MaxChildren == 4
\* tool calls made in one run of the hierarchy manager
MaxCalls == 2
\* positions of external calls of one tool call that may be rejected
MaxCallPosition == 9
\* external calls rejected during one tool call
MaxFaults == 2

-----------------------------------------------------------------------------
(* Text helpers: JavaScript string operations on sequences of characters *)

Min(a, b) == IF a < b THEN a ELSE b

\* s starts with t at index i (1-based)
StartsAt(s, t, i) ==
    /\ i >= 1
    /\ i + Len(t) - 1 <= Len(s)
    /\ \A j \in 1..Len(t) : s[i + j - 1] = t[j]

\* String.prototype.includes
Includes(s, t) == \E i \in 1..(Len(s) - Len(t) + 1) : StartsAt(s, t, i)

LowerOf(ch) ==
    CASE ch = "A" -> "a" [] ch = "B" -> "b" [] ch = "C" -> "c" [] ch = "D" -> "d"
      [] ch = "E" -> "e" [] ch = "F" -> "f" [] ch = "G" -> "g" [] ch = "H" -> "h"
      [] ch = "I" -> "i" [] ch = "J" -> "j" [] ch = "K" -> "k" [] ch = "L" -> "l"
      [] ch = "M" -> "m" [] ch = "N" -> "n" [] ch = "O" -> "o" [] ch = "P" -> "p"
      [] ch = "Q" -> "q" [] ch = "R" -> "r" [] ch = "S" -> "s" [] ch = "T" -> "t"
      [] ch = "U" -> "u" [] ch = "V" -> "v" [] ch = "W" -> "w" [] ch = "X" -> "x"
      [] ch = "Y" -> "y" [] ch = "Z" -> "z"
      [] OTHER -> ch

\* String.prototype.toLowerCase
toLowerCase(s) == [i \in 1..Len(s) |-> LowerOf(s[i])]

-----------------------------------------------------------------------------
(* Type classifier: detectIssueType *)

\* a faulty variant of combinedText: title and body joined without the space
combinedTextNoSpace(title, body) == toLowerCase(title \o body)

\* `${title} ${body || ''}`.toLowerCase()
combinedText(title, body) == toLowerCase(title \o <<" ">> \o body)

\* a faulty variant of isEpic: "parent" is no keyword
isEpicWithoutParent(t) ==
    \/ Includes(t, <<"e","p","i","c">>)
    \/ Includes(t, <<"i","n","i","t","i","a","t","i","v","e">>)
    \/ Includes(t, <<"m","i","l","e","s","t","o","n","e">>)

isEpic(t) ==
    \/ Includes(t, <<"e","p","i","c">>)
    \/ Includes(t, <<"i","n","i","t","i","a","t","i","v","e">>)
    \/ Includes(t, <<"m","i","l","e","s","t","o","n","e">>)
    \/ Includes(t, <<"p","a","r","e","n","t">>)

isFeature(t) ==
    \/ Includes(t, <<"f","e","a","t","u","r","e">>)
    \/ Includes(t, <<"e","n","h","a","n","c","e","m","e","n","t">>)
    \/ Includes(t, <<"n","e","w"," ","f","u","n","c","t","i","o","n","a","l","i","t","y">>)
    \/ Includes(t, <<"a","d","d"," ","s","u","p","p","o","r","t">>)
    \/ Includes(t, <<"i","m","p","l","e","m","e","n","t">>)

isBug(t) ==
    \/ Includes(t, <<"b","u","g">>)
    \/ Includes(t, <<"f","i","x">>)
    \/ Includes(t, <<"e","r","r","o","r">>)
    \/ Includes(t, <<"i","s","s","u","e">>)
    \/ Includes(t, <<"b","r","o","k","e","n">>)
    \/ Includes(t, <<"c","r","a","s","h">>)

isTask(t) ==
    \/ Includes(t, <<"t","a","s","k">>)
    \/ Includes(t, <<"c","h","o","r","e">>)
    \/ Includes(t, <<"r","e","f","a","c","t","o","r">>)
    \/ Includes(t, <<"u","p","d","a","t","e">>)
    \/ Includes(t, <<"c","l","e","a","n">>)

isStory(t) ==
    \/ Includes(t, <<"s","t","o","r","y">>)
    \/ Includes(t, <<"u","s","e","r"," ","s","t","o","r","y">>)
    \/ Includes(t, <<"a","s"," ","a"," ","u","s","e","r">>)
    \/ Includes(t, <<"i"," ","w","a","n","t">>)

isDocumentation(t) ==
    \/ Includes(t, <<"d","o","c","u","m","e","n","t","a","t","i","o","n">>)
    \/ Includes(t, <<"d","o","c","s">>)
    \/ Includes(t, <<"r","e","a","d","m","e">>)
    \/ Includes(t, <<"g","u","i","d","e">>)

\* a faulty variant of typeOfText: the task test moved ahead of the bug test
typeOfTextTaskFirst(t) ==
    IF isEpic(t) THEN "epic"
    ELSE IF isFeature(t) THEN "feature"
    ELSE IF isTask(t) THEN "task"
    ELSE IF isBug(t) THEN "bug"
    ELSE IF isStory(t) THEN "story"
    ELSE IF isDocumentation(t) THEN "documentation"
    ELSE "none"

\* the chain of tests on the combined text; "none" stands for null
typeOfText(t) ==
    IF isEpic(t) THEN "epic"
    ELSE IF isFeature(t) THEN "feature"
    ELSE IF isBug(t) THEN "bug"
    ELSE IF isTask(t) THEN "task"
    ELSE IF isStory(t) THEN "story"
    ELSE IF isDocumentation(t) THEN "documentation"
    ELSE "none"

detectIssueType(title, body) == typeOfText(combinedText(title, body))

-----------------------------------------------------------------------------
(* Children sort of getIssueHierarchy *)

\* a faulty variant of typeOrder: the classifier's order, bug ahead of task and story
typeOrderAsClassifier(type) ==
    CASE type = "epic" -> 0
      [] type = "feature" -> 1
      [] type = "bug" -> 2
      [] type = "task" -> 3
      [] type = "story" -> 4
      [] type = "documentation" -> 5
      [] OTHER -> 6

\* typeOrder[type] ?? 6
typeOrder(type) ==
    CASE type = "epic" -> 0
      [] type = "feature" -> 1
      [] type = "story" -> 2
      [] type = "task" -> 3
      [] type = "bug" -> 4
      [] type = "documentation" -> 5
      [] OTHER -> 6

\* the comparator handed to Array.prototype.sort: aOrder - bOrder
compareChildren(a, b) == typeOrder(a.type) - typeOrder(b.type)

\* x put into the sorted sequence s behind every element that does not compare
\* greater than it
RECURSIVE InsertChild(_, _)
InsertChild(s, x) ==
    IF s = << >> THEN <<x>>
    ELSE IF compareChildren(s[Len(s)], x) <= 0 THEN Append(s, x)
    ELSE Append(InsertChild(SubSeq(s, 1, Len(s) - 1), x), s[Len(s)])

\* Array.prototype.sort with compareChildren: a stable sort (ECMAScript 2019)
RECURSIVE sortChildren(_)
sortChildren(s) ==
    IF s = << >> THEN << >>
    ELSE InsertChild(sortChildren(SubSeq(s, 1, Len(s) - 1)), s[Len(s)])

-----------------------------------------------------------------------------
(* Issue numbers as decimal text: `#${n}` and parseInt *)

DigitChars == <<"0", "1", "2", "3", "4", "5", "6", "7", "8", "9">>

IsDigit(ch) == \E d \in 1..10 : DigitChars[d] = ch

DigitValue(ch) == (CHOOSE d \in 1..10 : DigitChars[d] = ch) - 1

\* String(n) for n >= 0
RECURSIVE toString(_)
toString(n) ==
    IF n < 10 THEN <<DigitChars[n + 1]>>
    ELSE toString(n \div 10) \o <<DigitChars[(n % 10) + 1]>>

\* parseInt on a run of decimal digits
RECURSIVE parseInt(_)
parseInt(ds) ==
    IF ds = << >> THEN 0
    ELSE parseInt(SubSeq(ds, 1, Len(ds) - 1)) * 10 + DigitValue(ds[Len(ds)])

\* index of the last digit of the longest run of digits that starts at i
\* (i - 1 when s has no digit at i): the greedy \d+
DigitRunEnd(s, i) ==
    LET stops == {j \in i..Len(s) : ~IsDigit(s[j])} \cup {Len(s) + 1}
    IN  (CHOOSE j \in stops : \A k \in stops : j <= k) - 1

\* index of the last character of the line that holds index i: the greedy .*
LineEnd(s, i) ==
    LET stops == {j \in i..Len(s) : s[j] = "\n"} \cup {Len(s) + 1}
    IN  (CHOOSE j \in stops : \A k \in stops : j <= k) - 1

WhiteSpace == {" ", "\n", "\t", "\r"}

\* String.prototype.trimEnd
trimEnd(s) ==
    LET kept == {j \in 1..Len(s) : s[j] \notin WhiteSpace} \cup {0}
    IN  SubSeq(s, 1, CHOOSE j \in kept : \A k \in kept : j >= k)

-----------------------------------------------------------------------------
(* The repository held by GitHub, as the handlers reach it through GraphQL *)

\* comments(first: 100)
CommentsFirst == 100

\* repository.issue(number): null for a number that names no issue
issueExists(iss, n) == n \in DOMAIN iss

\* a faulty variant of addComment: the comment replaces the comments of the issue
addCommentOverwriting(iss, n, text) ==
    [iss EXCEPT ![n].comments = <<text>>]

\* addComment(subjectId, body)
addComment(iss, n, text) ==
    [iss EXCEPT ![n].comments = Append(@, text)]

\* updateIssue(id, body)
updateIssue(iss, n, text) ==
    [iss EXCEPT ![n].body = text]

\* the first page of the comments connection: the oldest CommentsFirst comments
fetchComments(iss, n) ==
    SubSeq(iss[n].comments, 1, Min(Len(iss[n].comments), CommentsFirst))

\* labels(first: k) of issue n
firstLabels(iss, n, k) ==
    SubSeq(iss[n].labels, 1, Min(Len(iss[n].labels), k))

McpError(code, message) == [code |-> code, message |-> message]

\* a handler that threw after making the external calls cs
Thrown(iss, cs, error) ==
    [ok |-> FALSE, issues |-> iss, calls |-> cs, error |-> error]

\* a handler that returned value after making the external calls cs
Returned(iss, cs, value) ==
    [ok |-> TRUE, issues |-> iss, calls |-> cs, value |-> value]

\* the error a rejected GraphQL request throws: an Error, not a McpError
UpstreamError(message) == [code |-> "Error", message |-> message]

\* no external call of the handler is rejected
NoFaults == {}

Call(name, n) == [call |-> name, number |-> n]

-----------------------------------------------------------------------------
(* Write path: linkIssues, setParent, addSubIssue *)

LinkTypes == {"tracks", "blocks", "related"}

\* a faulty variant of linkTypeOrDefault: every link is made as tracks
linkTypeOrDefaultAlwaysTracks(arg) == "tracks"

\* linkType = 'tracks' when the argument is omitted
linkTypeOrDefault(arg) == IF arg = "undefined" THEN "tracks" ELSE arg

\* a faulty variant of parentComment: the text of kind tracks for every kind
parentCommentAlwaysTracks(linkType, childIssueNumber) ==
    <<"T","r","a","c","k","s"," ","#">> \o toString(childIssueNumber)

parentComment(linkType, childIssueNumber) ==
    IF linkType = "tracks" THEN <<"T","r","a","c","k","s"," ","#">> \o toString(childIssueNumber)
    ELSE IF linkType = "blocks" THEN <<"B","l","o","c","k","s"," ","#">> \o toString(childIssueNumber)
    ELSE <<"R","e","l","a","t","e","d"," ","t","o"," ","#">> \o toString(childIssueNumber)

\* a faulty variant of childComment: the parent's wording on the child
childCommentAsParent(linkType, parentIssueNumber) ==
    parentComment(linkType, parentIssueNumber)

childComment(linkType, parentIssueNumber) ==
    IF linkType = "tracks" THEN <<"T","r","a","c","k","e","d"," ","b","y"," ","#">> \o toString(parentIssueNumber)
    ELSE IF linkType = "blocks" THEN <<"B","l","o","c","k","e","d"," ","b","y"," ","#">> \o toString(parentIssueNumber)
    ELSE <<"R","e","l","a","t","e","d"," ","t","o"," ","#">> \o toString(parentIssueNumber)

\* `\n\n---\n**Parent:** #${parentIssueNumber} - ${parentIssueTitle}`
parentRef(parentIssueNumber, parentIssueTitle) ==
    <<"\n","\n","-","-","-","\n","*","*","P","a","r","e","n","t",":","*","*"," ","#">> \o toString(parentIssueNumber)
        \o <<" ","-"," ">> \o parentIssueTitle

ParentBlockStart == <<"\n","\n","-","-","-","\n","*","*","P","a","r","e","n","t",":","*","*">>

\* body.replace(/\n\n---\n\*\*Parent:\*\*.+/, ref): the first place where the
\* block start is followed by at least one character of the same line is
\* replaced, through the end of that line; no such place, no change.
\* (The titles of the model hold no dollar sign, so ref stands for itself.)
replaceParentBlock(body, ref) ==
    LET n == Len(ParentBlockStart)
        hits == {i \in 1..Len(body) :
                    /\ StartsAt(body, ParentBlockStart, i)
                    /\ i + n <= Len(body)
                    /\ body[i + n] # "\n"}
    IN  IF hits = {} THEN body
        ELSE LET i == CHOOSE h \in hits : \A k \in hits : h <= k
                 e == LineEnd(body, i + n)
             IN  SubSeq(body, 1, i - 1) \o ref \o SubSeq(body, e + 1, Len(body))

updatedBody(childIssueBody, ref) ==
    IF Includes(childIssueBody, <<"*","*","P","a","r","e","n","t",":","*","*">>)
    THEN replaceParentBlock(childIssueBody, ref)
    ELSE childIssueBody \o ref

\* `- [ ] #${childIssueNumber} ${childIssueTitle}`
childTaskItem(childIssueNumber, childIssueTitle) ==
    <<"-"," ","["," ","]"," ","#">> \o toString(childIssueNumber) \o <<" ">> \o childIssueTitle

\* index of the "\n" that ends the task line starting at i, 0 when the text
\* at i is no task line: - \[[ x]\] #\d+.*\n
TaskLineEnd(s, i) ==
    IF /\ StartsAt(s, <<"-"," ","[">>, i)
       /\ i + 7 <= Len(s)
       /\ s[i + 3] \in {" ", "x"}
       /\ StartsAt(s, <<"]"," ","#">>, i + 4)
       /\ IsDigit(s[i + 7])
    THEN LET e == LineEnd(s, i + 7)
         IN  IF e + 1 <= Len(s) THEN e + 1 ELSE 0
    ELSE 0

\* index of the "\n" that ends the last line of the run of task lines that
\* starts at i (i - 1 when there is none): the greedy (...)+
RECURSIVE TaskRunEnd(_, _)
TaskRunEnd(s, i) ==
    LET e == TaskLineEnd(s, i)
    IN  IF e = 0 THEN i - 1 ELSE TaskRunEnd(s, e + 1)

\* /(^|\n)(- \[[ x]\] #\d+.*\n)+/gm matches at k: the index of the match's
\* last character, 0 when there is no match at k. Either k is the start of a
\* line and a task line starts at k, or k holds "\n" and one starts at k + 1.
TaskListMatchEnd(s, k) ==
    IF (k = 1 \/ s[k - 1] = "\n") /\ TaskLineEnd(s, k) # 0
    THEN TaskRunEnd(s, k)
    ELSE IF s[k] = "\n" /\ TaskLineEnd(s, k + 1) # 0
    THEN TaskRunEnd(s, k + 1)
    ELSE 0

\* taskListRegex.test(body)
hasTaskList(body) == \E k \in 1..Len(body) : TaskListMatchEnd(body, k) # 0

\* body.replace(taskListRegex, match => match.trimEnd() + '\n' + item + '\n')
\* from index k on: every match is replaced (the regex is global), the text
\* between the matches is kept
RECURSIVE replaceTaskLists(_, _, _)
replaceTaskLists(s, k, item) ==
    LET starts == {j \in k..Len(s) : TaskListMatchEnd(s, j) # 0}
    IN  IF starts = {} THEN SubSeq(s, k, Len(s))
        ELSE LET b == CHOOSE j \in starts : \A i \in starts : j <= i
                 e == TaskListMatchEnd(s, b)
             IN  SubSeq(s, k, b - 1)
                    \o trimEnd(SubSeq(s, b, e)) \o <<"\n">> \o item \o <<"\n">>
                    \o replaceTaskLists(s, e + 1, item)

updatedParentBody(parentIssueBody, childIssueNumber, childIssueTitle) ==
    LET item == childTaskItem(childIssueNumber, childIssueTitle)
    IN  IF hasTaskList(parentIssueBody)
        THEN IF ~Includes(parentIssueBody, <<"#">> \o toString(childIssueNumber))
             THEN replaceTaskLists(parentIssueBody, 1, item)
             ELSE parentIssueBody
        ELSE <<"#","#","#"," ","T","a","s","k","s","\n">> \o item \o <<"\n","\n">> \o parentIssueBody

linkResult(iss, p, c, linkType) ==
    [success |-> TRUE,
     parent |-> [number |-> p, title |-> iss[p].title],
     child |-> [number |-> c, title |-> iss[c].title],
     relationship |-> linkType]

\* a faulty variant of linkIssues: the parent comment is posted before the child
\* is resolved
linkIssuesCommentFirst(iss, p, c, linkType) ==
    IF ~issueExists(iss, p)
    THEN Thrown(iss, <<Call("issue", p)>>,
                McpError("InvalidRequest", <<"P","a","r","e","n","t"," ","i","s","s","u","e"," ","n","o","t"," ","f","o","u","n","d">>))
    ELSE LET s1 == addComment(iss, p, parentComment(linkType, c))
         IN  IF ~issueExists(iss, c)
             THEN Thrown(s1, <<Call("issue", p), Call("addComment", p),
                               Call("issue", c)>>,
                         McpError("InvalidRequest", <<"C","h","i","l","d"," ","i","s","s","u","e"," ","n","o","t"," ","f","o","u","n","d">>))
             ELSE Returned(addComment(s1, c, childComment(linkType, p)),
                           <<Call("issue", p), Call("addComment", p),
                             Call("issue", c), Call("addComment", c)>>,
                           linkResult(iss, p, c, linkType))

\* a faulty variant of linkIssuesWith: a rejected call undoes what the calls
\* before it wrote
linkIssuesWithRollback(iss, p, c, linkType, faults, message) ==
    LET order == <<Call("issue", p), Call("issue", c),
                   Call("addComment", p), Call("addComment", c),
                   Call("updateIssue", c), Call("updateIssue", p)>>
        steps == IF linkType = "tracks" THEN 6 ELSE 4
        rejected == {k \in faults : k <= steps}
    IN  IF rejected # {}
        THEN Thrown(iss,
                    SubSeq(order, 1,
                           CHOOSE k \in rejected : \A j \in rejected : k <= j),
                    UpstreamError(message))
        ELSE Returned(iss, SubSeq(order, 1, steps),
                      linkResult(iss, p, c, linkType))

\* a faulty variant of linkIssuesWith: the parent's body is rewritten before
\* the child's body
linkIssuesWithParentBodyFirst(iss, p, c, linkType, faults, message) ==
    IF ~issueExists(iss, p) \/ ~issueExists(iss, c)
    THEN Thrown(iss, <<Call("issue", p)>>,
                McpError("InvalidRequest", <<"P","a","r","e","n","t"," ","i","s","s","u","e"," ","n","o","t"," ","f","o","u","n","d">>))
    ELSE LET s2 == addComment(addComment(iss, p, parentComment(linkType, c)),
                              c, childComment(linkType, p))
             s3 == updateIssue(s2, p,
                       updatedParentBody(iss[p].body, c, iss[c].title))
             s4 == updateIssue(s3, c,
                       updatedBody(iss[c].body, parentRef(p, iss[p].title)))
             comments == <<Call("issue", p), Call("issue", c),
                           Call("addComment", p), Call("addComment", c)>>
         IN  IF linkType = "tracks"
             THEN Returned(s4, comments \o <<Call("updateIssue", p),
                                            Call("updateIssue", c)>>,
                           linkResult(iss, p, c, linkType))
             ELSE Returned(s2, comments, linkResult(iss, p, c, linkType))

\* linkIssues({parentIssueNumber: p, childIssueNumber: c, linkType}) run on
\* the repository iss when the external calls whose position (1 = fetch
\* parent, 2 = fetch child, 3 = comment on parent, 4 = comment on child,
\* 5 = rewrite child body, 6 = rewrite parent body) is in faults are rejected
\* with message: every call is awaited outside any try block, so the first
\* rejected call ends the handler with what was written before it
linkIssuesWith(iss, p, c, linkType, faults, message) ==
    LET parentIssueTitle == iss[p].title
        parentIssueBody == iss[p].body
        childIssueTitle == iss[c].title
        childIssueBody == iss[c].body
        c1 == <<Call("issue", p)>>
        c2 == c1 \o <<Call("issue", c)>>
        c3 == c2 \o <<Call("addComment", p)>>
        c4 == c3 \o <<Call("addComment", c)>>
        c5 == c4 \o <<Call("updateIssue", c)>>
        c6 == c5 \o <<Call("updateIssue", p)>>
        s1 == addComment(iss, p, parentComment(linkType, c))
        s2 == addComment(s1, c, childComment(linkType, p))
        s3 == updateIssue(s2, c,
                  updatedBody(childIssueBody, parentRef(p, parentIssueTitle)))
        s4 == updateIssue(s3, p,
                  updatedParentBody(parentIssueBody, c, childIssueTitle))
    IN  IF 1 \in faults THEN Thrown(iss, c1, UpstreamError(message))
        ELSE IF ~issueExists(iss, p)
        THEN Thrown(iss, c1,
                    McpError("InvalidRequest", <<"P","a","r","e","n","t"," ","i","s","s","u","e"," ","n","o","t"," ","f","o","u","n","d">>))
        ELSE IF 2 \in faults THEN Thrown(iss, c2, UpstreamError(message))
        ELSE IF ~issueExists(iss, c)
        THEN Thrown(iss, c2,
                    McpError("InvalidRequest", <<"C","h","i","l","d"," ","i","s","s","u","e"," ","n","o","t"," ","f","o","u","n","d">>))
        ELSE IF 3 \in faults THEN Thrown(iss, c3, UpstreamError(message))
        ELSE IF 4 \in faults THEN Thrown(s1, c4, UpstreamError(message))
        ELSE IF linkType # "tracks"
        THEN Returned(s2, c4, linkResult(iss, p, c, linkType))
        ELSE IF 5 \in faults THEN Thrown(s2, c5, UpstreamError(message))
        ELSE IF 6 \in faults THEN Thrown(s3, c6, UpstreamError(message))
        ELSE Returned(s4, c6, linkResult(iss, p, c, linkType))

\* linkIssues when GitHub rejects no call
linkIssues(iss, p, c, linkType) ==
    linkIssuesWith(iss, p, c, linkType, NoFaults, << >>)

\* setParent({issueNumber, parentIssueNumber})
setParent(iss, issueNumber, parentIssueNumber) ==
    linkIssues(iss, parentIssueNumber, issueNumber, "tracks")

\* the outcomes of the native addSubIssue mutation: success, or an error
\* with one of these messages
NativeErrors ==
    { <<"F","i","e","l","d"," ","'","a","d","d","S","u","b","I","s","s","u","e","'"," ","d","o","e","s","n","'","t"," ","e","x","i","s","t"," ","o","n"," ","t","y","p","e"," ","'","M","u","t","a","t","i","o","n","'">>,
      <<"U","n","k","n","o","w","n"," ","f","i","e","l","d">>,
      <<"B","a","d"," ","c","r","e","d","e","n","t","i","a","l","s">>,
      <<"R","e","s","o","u","r","c","e"," ","n","o","t"," ","a","c","c","e","s","s","i","b","l","e"," ","b","y"," ","i","n","t","e","g","r","a","t","i","o","n">> }

NativeOk == [ok |-> TRUE]

NativeOutcomes == {NativeOk} \cup {[ok |-> FALSE, message |-> m] : m \in NativeErrors}

\* a faulty variant of capabilityAbsent: every native failure is taken for a
\* missing capability
capabilityAbsentAnyError(message) == TRUE

\* a faulty variant of capabilityAbsent: only "Unknown field" is recognised
capabilityAbsentUnknownFieldOnly(message) == Includes(message, <<"U","n","k","n","o","w","n"," ","f","i","e","l","d">>)

\* the test that sends addSubIssue to the fallback
capabilityAbsent(message) ==
    \/ Includes(message, <<"F","i","e","l","d"," ","'","a","d","d","S","u","b","I","s","s","u","e","'"," ","d","o","e","s","n","'","t"," ","e","x","i","s","t">>)
    \/ Includes(message, <<"U","n","k","n","o","w","n"," ","f","i","e","l","d">>)

\* prepend the calls cs to the calls of the outcome r
After(cs, r) == [r EXCEPT !.calls = cs \o @]

\* a faulty variant of addSubIssue: the comment and body link is made whatever
\* the native mutation answers
addSubIssueAlwaysLinks(iss, p, c, native) == linkIssues(iss, p, c, "tracks")

\* addSubIssue({parentIssueNumber: p, childIssueNumber: c}) when the native
\* mutation, if it is reached, ends as native
addSubIssue(iss, p, c, native) ==
    LET resolve == <<Call("issues", p)>>
    IN  IF ~issueExists(iss, p) \/ ~issueExists(iss, c)
        THEN Thrown(iss, resolve,
                    McpError("InvalidRequest",
                        IF ~issueExists(iss, p) THEN <<"P","a","r","e","n","t"," ","i","s","s","u","e"," ","n","o","t"," ","f","o","u","n","d">>
                        ELSE <<"C","h","i","l","d"," ","i","s","s","u","e"," ","n","o","t"," ","f","o","u","n","d">>))
        ELSE LET tried == resolve \o <<Call("addSubIssue", p)>>
             IN  IF native.ok
                 THEN Returned(iss, tried,
                        [success |-> TRUE,
                         relationship |-> "native_sub_issue",
                         parent |-> [number |-> p, title |-> iss[p].title],
                         child |-> [number |-> c, title |-> iss[c].title]])
                 ELSE IF capabilityAbsent(native.message)
                 THEN After(tried, linkIssues(iss, p, c, "tracks"))
                 ELSE Thrown(iss, tried, [code |-> "Error", message |-> native.message])

-----------------------------------------------------------------------------
(* Read path: getIssueHierarchy *)

NoMatch == -1

\* a faulty variant of parentMatch: the last match in the body is taken
parentMatchLast(body) ==
    LET pat == <<"*","*","P","a","r","e","n","t",":","*","*"," ","#">>
        hits == {i \in 1..Len(body) :
                    /\ StartsAt(body, pat, i)
                    /\ i + Len(pat) <= Len(body)
                    /\ IsDigit(body[i + Len(pat)])}
    IN  IF hits = {} THEN NoMatch
        ELSE LET i == CHOOSE h \in hits : \A k \in hits : h >= k
                 d == i + Len(pat)
             IN  parseInt(SubSeq(body, d, DigitRunEnd(body, d)))

\* issue.body?.match(/\*\*Parent:\*\* #(\d+)/): parseInt of the digits of the
\* first match, NoMatch when the body holds none
parentMatch(body) ==
    LET pat == <<"*","*","P","a","r","e","n","t",":","*","*"," ","#">>
        hits == {i \in 1..Len(body) :
                    /\ StartsAt(body, pat, i)
                    /\ i + Len(pat) <= Len(body)
                    /\ IsDigit(body[i + Len(pat)])}
    IN  IF hits = {} THEN NoMatch
        ELSE LET i == CHOOSE h \in hits : \A k \in hits : h <= k
                 d == i + Len(pat)
             IN  parseInt(SubSeq(body, d, DigitRunEnd(body, d)))

ChildPattern == <<"T","r","a","c","k","s"," ","#">>

\* the places where /Tracks #(\d+)/g matches in text (two matches never
\* overlap, so the exec loop finds every one of them)
tracksMatches(text) ==
    {i \in 1..Len(text) :
        /\ StartsAt(text, ChildPattern, i)
        /\ i + Len(ChildPattern) <= Len(text)
        /\ IsDigit(text[i + Len(ChildPattern)])}

\* parseInt(match[1]) of the match at index i of text
matchedNumber(text, i) ==
    LET d == i + Len(ChildPattern)
    IN  parseInt(SubSeq(text, d, DigitRunEnd(text, d)))

\* a faulty variant of childNumbers: every match is kept, repeated or not
childNumbersWithDuplicates(comments) ==
    LET found == {<<k, i>> \in UNION {{k} \X tracksMatches(comments[k]) :
                                          k \in 1..Len(comments)} : TRUE}
        before(a, b) == a[1] < b[1] \/ (a[1] = b[1] /\ a[2] < b[2])
    IN  [r \in 1..Cardinality(found) |->
            LET m == CHOOSE x \in found :
                        Cardinality({o \in found : before(o, x)}) = r - 1
            IN  matchedNumber(comments[m[1]], m[2])]

\* childNumbers after the loop over the fetched comments, as the sequence in
\* which the Set iterates: each number once, in the order of first insertion
childNumbers(comments) ==
    LET found == {<<k, i>> \in UNION {{k} \X tracksMatches(comments[k]) :
                                          k \in 1..Len(comments)} : TRUE}
        number(m) == matchedNumber(comments[m[1]], m[2])
        before(a, b) == a[1] < b[1] \/ (a[1] = b[1] /\ a[2] < b[2])
        first == {m \in found :
                    \A o \in found : number(o) = number(m) => ~before(o, m)}
    IN  [r \in 1..Cardinality(first) |->
            number(CHOOSE m \in first :
                      Cardinality({o \in first : before(o, m)}) = r - 1)]

\* the entry pushed for a parent or a child: its type is annotated from the
\* title alone
relative(iss, n) ==
    [number |-> n,
     title |-> iss[n].title,
     labels |-> firstLabels(iss, n, 5),
     type |-> detectIssueType(iss[n].title, << >>)]

\* a faulty variant of relativesWith: a number whose fetch is rejected is
\* pushed all the same
RECURSIVE relativesKeepRejected(_, _, _, _)
relativesKeepRejected(iss, ns, k, faults) ==
    IF ns = << >> THEN << >>
    ELSE (IF issueExists(iss, Head(ns))
          THEN <<relative(iss, Head(ns))>> ELSE << >>)
            \o relativesKeepRejected(iss, Tail(ns), k + 1, faults)

\* the entries pushed for the numbers ns, fetched one after the other by the
\* external calls at positions k, k + 1, ...: a number is left out when its
\* fetch is rejected (the catch block is empty) or resolves to no issue
RECURSIVE relativesWith(_, _, _, _)
relativesWith(iss, ns, k, faults) ==
    IF ns = << >> THEN << >>
    ELSE (IF k \notin faults /\ issueExists(iss, Head(ns))
          THEN <<relative(iss, Head(ns))>> ELSE << >>)
            \o relativesWith(iss, Tail(ns), k + 1, faults)

\* the entries of the numbers ns that resolve to an issue, in order
relatives(iss, ns) == relativesWith(iss, ns, 1, NoFaults)

\* getIssueHierarchy({issueNumber: n}) run on the repository iss when the
\* external calls whose position (1 = the issue with its comments, then the
\* parent named by the body if there is one, then each child number in the
\* order of the Set) is in faults are rejected with message
getIssueHierarchyWith(iss, n, faults, message) ==
    IF 1 \in faults
    THEN Thrown(iss, <<Call("issue", n)>>, UpstreamError(message))
    ELSE IF ~issueExists(iss, n)
    THEN Thrown(iss, <<Call("issue", n)>>,
                McpError("InvalidRequest", <<"I","s","s","u","e"," ","n","o","t"," ","f","o","u","n","d">>))
    ELSE
      LET issue == iss[n]
          parentNumber == parentMatch(issue.body)
          parentNumbers == IF parentNumber # NoMatch
                           THEN <<parentNumber>> ELSE << >>
          found == childNumbers(fetchComments(iss, n))
          fetched == parentNumbers \o found
      IN  Returned(iss,
            <<Call("issue", n)>>
                \o [i \in 1..Len(fetched) |-> Call("issue", fetched[i])],
            [current |-> [number |-> n,
                          title |-> issue.title,
                          labels |-> firstLabels(iss, n, 10),
                          type |-> detectIssueType(issue.title, issue.body)],
             parents |-> relativesWith(iss, parentNumbers, 2, faults),
             children |-> sortChildren(
                             relativesWith(iss, found, 2 + Len(parentNumbers),
                                           faults))])

\* getIssueHierarchy when GitHub rejects no call
getIssueHierarchy(iss, n) == getIssueHierarchyWith(iss, n, NoFaults, << >>)

-----------------------------------------------------------------------------
(* createIssue *)

\* the names of the labels the repository defines
RepoLabels == {"epic", "feature", "bug", "Bug", "story", "documentation"}

\* Array.prototype.includes
includes(list, x) == \E i \in 1..Len(list) : list[i] = x

\* a faulty variant of autoLabels: the detected type is pushed without the test
\* whether the list holds it already
autoLabelsAlwaysPush(labels, issueType) ==
    IF issueType # "none" THEN Append(labels, issueType) ELSE labels

\* autoLabels = [...labels], and the detected type pushed behind them when
\* there is one and the list does not include it
autoLabels(labels, issueType) ==
    IF issueType # "none" /\ ~includes(labels, issueType)
    THEN Append(labels, issueType)
    ELSE labels

\* the label names that resolve to an id of the repository: names the
\* repository does not define are dropped (filter(Boolean))
labelIds(names) == SelectSeq(names, LAMBDA l : l \in RepoLabels)

\* the number GitHub gives the next issue
nextIssueNumber(iss) ==
    (CHOOSE n \in DOMAIN iss : \A m \in DOMAIN iss : n >= m) + 1

NoParent == 0

\* a faulty variant of createIssueWith: a link that fails makes the call fail
createIssueWithLinkThrows(iss, args, faults, message) ==
    LET number == nextIssueNumber(iss)
        s1 == (number :> [title |-> args.title, body |-> args.body,
                          comments |-> << >>, labels |-> << >>]) @@ iss
        creation == <<Call("repository", number), Call("createIssue", number)>>
        r == linkIssuesWith(s1, args.parentIssueNumber, number, "tracks",
                            {k - Len(creation) : k \in faults}, message)
    IN  IF args.parentIssueNumber = NoParent
        THEN Returned(s1, creation, [issue |-> [number |-> number], link |-> "none"])
        ELSE IF r.ok
        THEN Returned(r.issues, creation \o r.calls,
                      [issue |-> [number |-> number], link |-> "parentIssue",
                       parentIssue |-> [number |-> args.parentIssueNumber,
                                        relationship |-> "tracks"]])
        ELSE Thrown(r.issues, creation \o r.calls, r.error)

\* createIssue({title, body, labels, parentIssueNumber}) run on the
\* repository iss (the repository itself resolves) when the external calls
\* whose position is in faults are rejected with message: the calls that
\* create the issue come first and are awaited outside any try block, the
\* calls of linkIssues follow them inside the try block whose catch puts the
\* message into the response
createIssueWith(iss, args, faults, message) ==
    LET issueType == detectIssueType(args.title, args.body)
        names == autoLabels(args.labels, issueType)
        number == nextIssueNumber(iss)
        created == [title |-> args.title, body |-> args.body,
                    comments |-> << >>, labels |-> labelIds(names)]
        s1 == (number :> created) @@ iss
        createdIssue == [number |-> number, title |-> args.title,
                         body |-> args.body, labels |-> firstLabels(s1, number, 10)]
        creation == <<Call("repository", number)>>
                    \o (IF names # << >> THEN <<Call("labels", number)>> ELSE << >>)
                    \o <<Call("createIssue", number)>>
        rejected == {k \in faults : k <= Len(creation)}
    IN  IF rejected # {}
        THEN Thrown(iss,
                    SubSeq(creation, 1,
                           CHOOSE k \in rejected : \A j \in rejected : k <= j),
                    UpstreamError(message))
        ELSE IF args.parentIssueNumber = NoParent
        THEN Returned(s1, creation, [issue |-> createdIssue, link |-> "none"])
        ELSE LET r == linkIssuesWith(s1, args.parentIssueNumber, number, "tracks",
                          {k - Len(creation) : k \in faults}, message)
             IN  IF r.ok
                 THEN Returned(r.issues, creation \o r.calls,
                        [issue |-> createdIssue,
                         link |-> "parentIssue",
                         parentIssue |-> [number |-> args.parentIssueNumber,
                                          relationship |-> "tracks"]])
                 ELSE Returned(r.issues, creation \o r.calls,
                        [issue |-> createdIssue,
                         link |-> "linkError",
                         linkError |-> r.error.message])

\* createIssue when GitHub rejects no call
createIssue(iss, args) == createIssueWith(iss, args, NoFaults, << >>)

-----------------------------------------------------------------------------
(* The tool-call boundary: the CallToolRequestSchema handler *)

\* a faulty variant of atBoundary: the hint follows every wrapped message
atBoundaryHintAlways(r) ==
    IF r.ok \/ r.error.code # "Error" THEN r
    ELSE [r EXCEPT !.error =
            McpError("InternalError",
                <<"G","i","t","H","u","b"," ","A","P","I"," ","e","r","r","o","r",":"," ">> \o r.error.message \o
                <<"."," ","P","l","e","a","s","e"," ","c","h","e","c","k"," ","t","h","a","t"," ","y","o","u","r"," ","G","i","t","H","u","b"," ","t","o","k","e","n"," ","i","s"," ","v","a","l","i","d"," ","a","n","d"," ","h","a","s"," ","t","h","e"," ","r","e","q","u","i","r","e","d"," ","p","e","r","m","i","s","s","i","o","n","s"," ","(","r","e","p","o",","," ","p","r","o","j","e","c","t",","," ","r","e","a","d",":","o","r","g",")",".">>)]

\* what the host receives for the outcome r of a handler: a McpError passes
\* unchanged, any other error is wrapped as InternalError
atBoundary(r) ==
    IF r.ok \/ r.error.code # "Error" THEN r
    ELSE [r EXCEPT !.error =
            McpError("InternalError",
                <<"G","i","t","H","u","b"," ","A","P","I"," ","e","r","r","o","r",":"," ">> \o r.error.message \o
                (IF Includes(r.error.message, <<"B","a","d"," ","c","r","e","d","e","n","t","i","a","l","s">>)
                 THEN <<"."," ","P","l","e","a","s","e"," ","c","h","e","c","k"," ","t","h","a","t"," ","y","o","u","r"," ","G","i","t","H","u","b"," ","t","o","k","e","n"," ","i","s"," ","v","a","l","i","d"," ","a","n","d"," ","h","a","s"," ","t","h","e"," ","r","e","q","u","i","r","e","d"," ","p","e","r","m","i","s","s","i","o","n","s"," ","(","r","e","p","o",","," ","p","r","o","j","e","c","t",","," ","r","e","a","d",":","o","r","g",")",".">>
                 ELSE << >>))]

\* the default branch of the switch: a name that is no declared tool runs no
\* handler and throws MethodNotFound
unknownTool(iss, name) ==
    Thrown(iss, << >>, McpError("MethodNotFound", <<"U","n","k","n","o","w","n"," ","t","o","o","l",":"," ">> \o name))

\* the record kept of a finished tool call
Outcome(op, args, r) ==
    [op |-> op, args |-> args, ok |-> r.ok, calls |-> r.calls,
     result |-> IF r.ok THEN r.value ELSE r.error]

-----------------------------------------------------------------------------
(* The hierarchy manager on a repository of three issues *)

Issue(title, body) ==
    [title |-> title, body |-> body, comments |-> << >>, labels |-> << >>]

\* issues 1, 2 and 12 exist; no other number names an issue
BaseIssues ==
    (1 :> Issue(<<"P","l","a","n">>, << >>)) @@
    (2 :> Issue(<<"F","i","x">>, << >>)) @@
    (12 :> Issue(<<"D","o","c","s">>, << >>))

MissingNumber == 7

\* bodies an issue may hold before it is linked as a parent
ParentBodies ==
    { <<"P","l","a","n"," ","t","e","x","t">>,
      <<"#","#","#"," ","T","a","s","k","s","\n","-"," ","["," ","]"," ","#","2"," ","F","i","x","\n","\n","m","o","r","e">>,
      <<"-"," ","["," ","]"," ","#","2"," ","F","i","x","\n","m","i","d","\n","-"," ","[","x","]"," ","#","3"," ","o","l","d","\n">>,
      <<"-"," ","["," ","]"," ","#","2"," ","F","i","x">>,
      <<"-"," ","["," ","]"," ","#","1","2"," ","D","o","c","s","\n">> }

\* bodies an issue may hold before it is linked as a child
ChildBodies ==
    { <<"S","o","m","e"," ","t","e","x","t">>,
      <<"t","e","x","t","\n","\n","-","-","-","\n","*","*","P","a","r","e","n","t",":","*","*"," ","#","2"," ","-"," ","F","i","x">>,
      <<"*","*","P","a","r","e","n","t",":","*","*"," ","#","2">>,
      <<"t","e","x","t","\n","\n","-","-","-","\n","*","*","P","a","r","e","n","t",":","*","*"," ","#","2"," ","-"," ","F","i","x","\n","f","o","o","t","e","r">> }

\* the pairs (parent, child) of existing issues that are linked
ExistingPairs == {<<1, 12>>, <<2, 1>>, <<1, 1>>}

\* the pairs with a number that names no issue
MissingPairs ==
    {<<1, MissingNumber>>, <<MissingNumber, 1>>, <<MissingNumber, MissingNumber>>}

\* k comments that mention no issue
Fillers(k) == [i \in 1..k |-> <<"o","k">>]

Scenario(pair, iss) == [p |-> pair[1], c |-> pair[2], issues |-> iss]

Scenarios ==
    {Scenario(pair, BaseIssues) : pair \in ExistingPairs \cup MissingPairs}
    \cup {Scenario(pair, [BaseIssues EXCEPT ![pair[1]].body = b]) :
            pair \in ExistingPairs, b \in ParentBodies}
    \cup {Scenario(pair, [BaseIssues EXCEPT ![pair[2]].body = b]) :
            pair \in ExistingPairs, b \in ChildBodies}
    \cup {Scenario(<<1, 12>>, [BaseIssues EXCEPT ![1].comments = Fillers(k)]) :
            k \in {CommentsFirst - 1, CommentsFirst}}

Init ==
    /\ \E s \in Scenarios :
          /\ input = [p |-> s.p, c |-> s.c]
          /\ issues = s.issues
    /\ last = [op |-> "none"]
    /\ ops = 0

\* a finished tool call: the repository as the handler left it, and the
\* outcome the host received
Finish(op, args, r) ==
    /\ ops' = ops + 1
    /\ issues' = r.issues
    /\ last' = Outcome(op, args, atBoundary(r))
    /\ UNCHANGED input

LinkIssues ==
    /\ ops < MaxCalls
    /\ \E arg \in LinkTypes \cup {"undefined"} :
          Finish("link_issues",
                 [p |-> input.p, c |-> input.c, linkType |-> arg],
                 linkIssues(issues, input.p, input.c, linkTypeOrDefault(arg)))

SetParent ==
    /\ ops < MaxCalls
    /\ Finish("set_parent",
              [p |-> input.p, c |-> input.c],
              setParent(issues, input.c, input.p))

AddSubIssue ==
    /\ ops < MaxCalls
    /\ \E native \in NativeOutcomes :
          Finish("add_sub_issue",
                 [p |-> input.p, c |-> input.c, native |-> native],
                 addSubIssue(issues, input.p, input.c, native))

GetIssueHierarchy ==
    /\ ops < MaxCalls
    /\ \E n \in {input.p, input.c} :
          Finish("get_issue_hierarchy",
                 [n |-> n],
                 getIssueHierarchy(issues, n))

Next ==
    \/ LinkIssues
    \/ SetParent
    \/ AddSubIssue
    \/ GetIssueHierarchy

Spec == Init /\ [][Next]_vars

-----------------------------------------------------------------------------
(* createIssue on drawn arguments *)

CreateTitles == { <<"F","i","x"," ","c","r","a","s","h">>, <<"B","u","g"," ","r","e","p","o","r","t">>, <<"E","p","i","c">>, <<"N","o","t","e","s">>, <<"t","a","s","k"," ","b","u","g">> }

CreateBodies == { << >>, <<"a","s"," ","a"," ","u","s","e","r">>, <<"s","e","e"," ","p","a","r","e","n","t">> }

LabelLists ==
    { << >>, <<"bug">>, <<"Bug">>, <<"urgent", "bug">>, <<"epic", "story">>,
      <<"task">> }

InitCreate ==
    /\ input \in [title : CreateTitles, body : CreateBodies,
                  labels : LabelLists,
                  parentIssueNumber : {NoParent, 1, MissingNumber}]
    /\ issues = BaseIssues
    /\ last = [op |-> "none"]
    /\ ops = 0

CreateIssue ==
    /\ ops < MaxCalls
    /\ Finish("create_issue", input, createIssue(issues, input))

NextCreate == CreateIssue

SpecCreate == InitCreate /\ [][NextCreate]_vars

-----------------------------------------------------------------------------
(* The classifier on drawn titles and bodies *)

Words ==
    { <<"E","p","i","c">>, <<"i","m","p","l","e","m","e","n","t">>, <<"B","u","g">>, <<"u","p","d","a","t","e">>, <<"s","t","o","r","y">>, <<"d","o","c","u","m","e","n","t","a","t","i","o","n">>,
      <<"R","a","n","d","o","m">>, <<"n","e","w">>, <<"f","u","n","c","t","i","o","n","a","l","i","t","y">>, <<"e","p">>, <<"i","c">>, <<"g","u","i","d","e">> }

RECURSIVE TitlesOf(_)
TitlesOf(n) ==
    IF n = 1 THEN Words
    ELSE {t \o <<" ">> \o w : t \in TitlesOf(n - 1), w \in Words}

Titles == UNION {TitlesOf(n) : n \in 1..MaxTitleWords}

\* a missing body is the empty text: body || ''
Bodies == {<< >>} \cup Words

NoIssues == << >>

InitClassify ==
    /\ input \in [title : Titles, body : Bodies]
    /\ issues = NoIssues
    /\ last = [op |-> "none"]
    /\ ops = 0

Classify ==
    /\ last.op = "none"
    /\ last' = [op |-> "classify",
                type |-> detectIssueType(input.title, input.body)]
    /\ ops' = ops + 1
    /\ UNCHANGED <<input, issues>>

NextClassify == Classify

SpecClassify == InitClassify /\ [][NextClassify]_vars

-----------------------------------------------------------------------------
(* The children sort on drawn lists of children *)

Types == {"epic", "feature", "bug", "task", "story", "documentation", "none"}

\* children as discovered: the number stands for the place in the discovery
\* order, the type is the child's annotated type
ChildLists ==
    UNION {[1..n -> Types] : n \in 0..MaxChildren}

AsChildren(ts) == [i \in 1..Len(ts) |-> [number |-> i, type |-> ts[i]]]

InitSort ==
    /\ input \in {[children |-> AsChildren(ts)] : ts \in ChildLists}
    /\ issues = NoIssues
    /\ last = [op |-> "none"]
    /\ ops = 0

SortChildren ==
    /\ last.op = "none"
    /\ last' = [op |-> "sort", children |-> sortChildren(input.children)]
    /\ ops' = ops + 1
    /\ UNCHANGED <<input, issues>>

NextSort == SortChildren

SpecSort == InitSort /\ [][NextSort]_vars

-----------------------------------------------------------------------------
(* One tool call during which GitHub rejects some of the external calls *)

\* issue 1 names issue 2 as its parent and tracks 12, 2 and the missing 7;
\* issue 12 names the missing 7 as its parent
LinkedIssues ==
    [BaseIssues EXCEPT
        ![1].body = <<"t","e","x","t","\n","\n","-","-","-","\n","*","*","P","a","r","e","n","t",":","*","*"," ","#","2"," ","-"," ","F","i","x">>,
        ![1].comments = <<<<"T","r","a","c","k","s"," ","#","1","2">>, <<"T","r","a","c","k","s"," ","#","2"," ","a","n","d"," ","T","r","a","c","k","s"," ","#","7">>,
                          <<"T","r","a","c","k","s"," ","#","1","2">>>>,
        ![12].body = <<"*","*","P","a","r","e","n","t",":","*","*"," ","#","7">>]

\* the messages of the errors GitHub rejects a call with
UpstreamMessages == { <<"B","a","d"," ","c","r","e","d","e","n","t","i","a","l","s">>, <<"S","e","r","v","e","r"," ","e","r","r","o","r">> }

\* the sets of positions of rejected calls
FaultSets ==
    {f \in SUBSET (1..MaxCallPosition) : Cardinality(f) <= MaxFaults}

\* a name that is no declared tool
UnknownTools == { <<"d","e","l","e","t","e","_","i","s","s","u","e">> }

InitFaults ==
    /\ input \in [p : {1, 2, MissingNumber}, c : {1, 12, MissingNumber}]
    /\ issues \in {BaseIssues, LinkedIssues}
    /\ last = [op |-> "none"]
    /\ ops = 0

LinkIssuesRejected ==
    /\ ops = 0
    /\ \E linkType \in LinkTypes, faults \in FaultSets, m \in UpstreamMessages :
          Finish("link_issues",
                 [p |-> input.p, c |-> input.c, linkType |-> linkType,
                  faults |-> faults, message |-> m],
                 linkIssuesWith(issues, input.p, input.c, linkType, faults, m))

GetIssueHierarchyRejected ==
    /\ ops = 0
    /\ \E n \in {input.p, input.c}, faults \in FaultSets, m \in UpstreamMessages :
          Finish("get_issue_hierarchy",
                 [n |-> n, faults |-> faults, message |-> m],
                 getIssueHierarchyWith(issues, n, faults, m))

CreateIssueRejected ==
    /\ ops = 0
    /\ \E title \in { <<"F","i","x"," ","c","r","a","s","h">>, <<"N","o","t","e","s">> },
          parentIssueNumber \in {NoParent, input.p},
          faults \in FaultSets, m \in UpstreamMessages :
          LET args == [title |-> title, body |-> << >>, labels |-> << >>,
                       parentIssueNumber |-> parentIssueNumber]
          IN  Finish("create_issue",
                     [create |-> args, faults |-> faults, message |-> m],
                     createIssueWith(issues, args, faults, m))

CallUnknownTool ==
    /\ ops = 0
    /\ \E name \in UnknownTools :
          Finish("unknown_tool", [name |-> name], unknownTool(issues, name))

NextFaults ==
    \/ LinkIssuesRejected
    \/ GetIssueHierarchyRejected
    \/ CreateIssueRejected
    \/ CallUnknownTool

SpecFaults == InitFaults /\ [][NextFaults]_vars

-----------------------------------------------------------------------------
(* An issue linked under one parent and then given another *)

\* bodies the issue may hold before it is linked: those of ChildBodies, one
\* with two markers, the second in the form of a parent block, and one with
\* a task list after its parent block
ReparentBodies ==
    ChildBodies
    \cup { <<"*","*","P","a","r","e","n","t",":","*","*"," ","#","2"," ","o","l","d","\n","\n","-","-","-","\n","*","*","P","a","r","e","n","t",":","*","*"," ","#","1","2"," ","-"," ","D","o","c","s">>,
           <<"t","e","x","t","\n","\n","-","-","-","\n","*","*","P","a","r","e","n","t",":","*","*"," ","#","2"," ","-"," ","F","i","x","\n","\n","#","#","#"," ","T","a","s","k","s","\n","-"," ","["," ","]"," ","#","3"," ","o","l","d","\n">> }

\* the first parent, the second parent and the issue
Families ==
    { [p1 |-> 1, p2 |-> 2, c |-> 12], [p1 |-> 2, p2 |-> 12, c |-> 1],
      [p1 |-> 12, p2 |-> 1, c |-> 2] }

InitReparent ==
    /\ input \in Families
    /\ issues \in
          {BaseIssues}
          \cup {[BaseIssues EXCEPT ![input.c].body = b] : b \in ReparentBodies}
          \cup {[BaseIssues EXCEPT ![input.p1].body = b] : b \in ParentBodies}
          \cup {[BaseIssues EXCEPT ![input.p1].comments = Fillers(CommentsFirst)]}
    /\ last = [op |-> "none"]
    /\ ops = 0

LinkFirstParent ==
    /\ ops < MaxCalls
    /\ Finish("link_issues",
              [p |-> input.p1, c |-> input.c, linkType |-> "tracks"],
              linkIssues(issues, input.p1, input.c, "tracks"))

SetSecondParent ==
    /\ ops < MaxCalls
    /\ Finish("set_parent",
              [p |-> input.p2, c |-> input.c],
              setParent(issues, input.c, input.p2))

NextReparent ==
    \/ LinkFirstParent
    \/ SetSecondParent

SpecReparent == InitReparent /\ [][NextReparent]_vars

-----------------------------------------------------------------------------
(* Two linkIssues calls in flight at once: each await of the handler is one
   step, and the steps of the two calls interleave in any order *)

\* what a call holds of an issue before it has read it
NoSnapshot == [found |-> FALSE, title |-> << >>, body |-> << >>]

\* what the query for issue n returns: id (found), title and body
snapshot(iss, n) ==
    IF issueExists(iss, n)
    THEN [found |-> TRUE, title |-> iss[n].title, body |-> iss[n].body]
    ELSE NoSnapshot

\* a faulty variant of rewriteChildBody: the body is read again at the write
rewriteChildBodyFresh(iss, call, parentIssue, childIssue) ==
    updateIssue(iss, call.c,
        updatedBody(iss[call.c].body, parentRef(call.p, parentIssue.title)))

\* await graphqlWithAuth(updateIssueMutation, {issueId: childIssueId,
\* body: updatedBody}): the body is built from childIssueBody as the call read
\* it at its start
rewriteChildBody(iss, call, parentIssue, childIssue) ==
    updateIssue(iss, call.c,
        updatedBody(childIssue.body, parentRef(call.p, parentIssue.title)))

\* a faulty variant of rewriteParentBody: the body is read again at the write
rewriteParentBodyFresh(iss, call, parentIssue, childIssue) ==
    updateIssue(iss, call.p,
        updatedParentBody(iss[call.p].body, call.c, childIssue.title))

\* await graphqlWithAuth(updateIssueMutation, {issueId: parentIssueId,
\* body: updatedParentBody}): the body is built from parentIssueBody as the
\* call read it at its start
rewriteParentBody(iss, call, parentIssue, childIssue) ==
    updateIssue(iss, call.p,
        updatedParentBody(parentIssue.body, call.c, childIssue.title))

LinkCall(p, c, linkType) == [p |-> p, c |-> c, linkType |-> linkType]

\* the two calls: on one parent, chained on a middle issue, with a link type
\* that rewrites no body, and with a number that names no issue
RaceCalls ==
    { <<LinkCall(1, 2, "tracks"), LinkCall(1, 12, "tracks")>>,
      <<LinkCall(1, 2, "tracks"), LinkCall(2, 12, "tracks")>>,
      <<LinkCall(1, 2, "blocks"), LinkCall(1, 12, "tracks")>>,
      <<LinkCall(1, 12, "tracks"), LinkCall(MissingNumber, 2, "tracks")>>,
      <<LinkCall(1, MissingNumber, "tracks"), LinkCall(1, 12, "tracks")>> }

\* the repository before the two calls
RaceIssues ==
    {BaseIssues}
    \cup {[BaseIssues EXCEPT ![n].body = b] :
            n \in DOMAIN BaseIssues, b \in ParentBodies \cup ChildBodies}
    \cup {[BaseIssues EXCEPT ![1].comments = Fillers(k)] :
            k \in {CommentsFirst - 2, CommentsFirst - 1}}

InitRace ==
    /\ input \in RaceCalls
    /\ issues \in RaceIssues
    /\ last = [op |-> "race",
               at |-> [k \in 1..2 |-> "fetchParent"],
               parentIssue |-> [k \in 1..2 |-> NoSnapshot],
               childIssue |-> [k \in 1..2 |-> NoSnapshot],
               error |-> [k \in 1..2 |-> << >>]]
    /\ ops = 0

\* call k passes an await that reads or writes nothing of the repository
Step(k, at) ==
    /\ last' = [last EXCEPT !.at[k] = at]
    /\ ops' = ops + 1
    /\ UNCHANGED input

\* const parentResult = await graphqlWithAuth(parentQuery, ...)
FetchParent(k) ==
    /\ last.at[k] = "fetchParent"
    /\ LET parentIssue == snapshot(issues, input[k].p)
       IN  last' = IF parentIssue.found
                   THEN [last EXCEPT !.parentIssue[k] = parentIssue,
                                     !.at[k] = "fetchChild"]
                   ELSE [last EXCEPT !.at[k] = "thrown",
                                     !.error[k] = <<"P","a","r","e","n","t"," ","i","s","s","u","e"," ","n","o","t"," ","f","o","u","n","d">>]
    /\ ops' = ops + 1
    /\ UNCHANGED <<input, issues>>

\* const childResult = await graphqlWithAuth(childQuery, ...)
FetchChild(k) ==
    /\ last.at[k] = "fetchChild"
    /\ LET childIssue == snapshot(issues, input[k].c)
       IN  last' = IF childIssue.found
                   THEN [last EXCEPT !.childIssue[k] = childIssue,
                                     !.at[k] = "commentParent"]
                   ELSE [last EXCEPT !.at[k] = "thrown",
                                     !.error[k] = <<"C","h","i","l","d"," ","i","s","s","u","e"," ","n","o","t"," ","f","o","u","n","d">>]
    /\ ops' = ops + 1
    /\ UNCHANGED <<input, issues>>

\* await graphqlWithAuth(addParentCommentMutation, {issueId: parentIssueId, ...})
CommentParent(k) ==
    /\ last.at[k] = "commentParent"
    /\ issues' = addComment(issues, input[k].p,
                            parentComment(input[k].linkType, input[k].c))
    /\ Step(k, "commentChild")

\* await graphqlWithAuth(addParentCommentMutation, {issueId: childIssueId, ...})
CommentChild(k) ==
    /\ last.at[k] = "commentChild"
    /\ issues' = addComment(issues, input[k].c,
                            childComment(input[k].linkType, input[k].p))
    /\ Step(k, IF input[k].linkType = "tracks" THEN "rewriteChild"
               ELSE "returned")

RewriteChildBody(k) ==
    /\ last.at[k] = "rewriteChild"
    /\ issues' = rewriteChildBody(issues, input[k], last.parentIssue[k],
                                  last.childIssue[k])
    /\ Step(k, "rewriteParent")

RewriteParentBody(k) ==
    /\ last.at[k] = "rewriteParent"
    /\ issues' = rewriteParentBody(issues, input[k], last.parentIssue[k],
                                   last.childIssue[k])
    /\ Step(k, "returned")

NextRace ==
    \/ \E k \in 1..2 : FetchParent(k)
    \/ \E k \in 1..2 : FetchChild(k)
    \/ \E k \in 1..2 : CommentParent(k)
    \/ \E k \in 1..2 : CommentChild(k)
    \/ \E k \in 1..2 : RewriteChildBody(k)
    \/ \E k \in 1..2 : RewriteParentBody(k)

SpecRace == InitRace /\ [][NextRace]_vars

-----------------------------------------------------------------------------
(* Claims about the hierarchy manager *)

\* the call recorded in l is a link_issues call of kind tracks that succeeded
IsTracksLink(l) ==
    /\ l.op = "link_issues"
    /\ l.ok
    /\ linkTypeOrDefault(l.args.linkType) = "tracks"

\* the step is a tool call
IsCall == ops' = ops + 1

Exists(n) == n \in DOMAIN issues

Numbers(entries) == [i \in 1..Len(entries) |-> entries[i].number]

\* the number n occurs in the list of entries
Names(entries, n) == \E i \in 1..Len(entries) : entries[i].number = n

\* how many times t occurs in s
Occurrences(s, t) ==
    Cardinality({i \in 1..Len(s) : StartsAt(s, t, i)})

\* how many checklist lines of body reference issue c
TaskLinesFor(body, c) ==
    LET open == <<"-"," ","["," ","]"," ","#">> \o toString(c)
        done == <<"-"," ","[","x","]"," ","#">> \o toString(c)
    IN  Cardinality({i \in 1..Len(body) :
            /\ i = 1 \/ body[i - 1] = "\n"
            /\ StartsAt(body, open, i) \/ StartsAt(body, done, i)
            /\ i + Len(open) <= Len(body) => ~IsDigit(body[i + Len(open)])})

\* C1: right after a successful link(p, c, tracks), hierarchy(p).children
\* holds an entry with number c and hierarchy(c).parents holds an entry with
\* number p, whatever the bodies and comments of the two issues were (stated
\* here for two distinct issues).
C1_RoundTrip ==
    (IsTracksLink(last) /\ last.args.p # last.args.c) =>
        LET hp == getIssueHierarchy(issues, last.args.p)
            hc == getIssueHierarchy(issues, last.args.c)
        IN  /\ hp.ok
            /\ Names(hp.value.children, last.args.c)
            /\ hc.ok
            /\ Names(hc.value.parents, last.args.p)

\* C2: when link(p, c, tracks) is called twice in succession, p's body never
\* holds two checklist lines for #c, and the second call writes p's body back
\* as the first call left it.
C2_Idempotent ==
    [][ (IsCall /\ IsTracksLink(last) /\ IsTracksLink(last')) =>
            /\ TaskLinesFor(issues'[input.p].body, input.c) <= 1
            /\ issues'[input.p].body = issues[input.p].body ]_vars

\* C3: when both issues exist and the native call fails with a message that
\* contains "Unknown field" or "Field 'addSubIssue' doesn't exist",
\* add_sub_issue returns what link(p, c, tracks) returns from the same
\* repository and leaves the repository as that link leaves it.
C3_FallbackEquivalence ==
    [][ ( /\ IsCall
          /\ last'.op = "add_sub_issue"
          /\ Exists(input.p) /\ Exists(input.c)
          /\ ~last'.args.native.ok
          /\ \/ Includes(last'.args.native.message, <<"U","n","k","n","o","w","n"," ","f","i","e","l","d">>)
             \/ Includes(last'.args.native.message, <<"F","i","e","l","d"," ","'","a","d","d","S","u","b","I","s","s","u","e","'"," ","d","o","e","s","n","'","t"," ","e","x","i","s","t">>) ) =>
            LET direct == atBoundary(linkIssues(issues, input.p, input.c, "tracks"))
            IN  /\ last'.ok = direct.ok
                /\ last'.result = (IF direct.ok THEN direct.value ELSE direct.error)
                /\ issues' = direct.issues ]_vars

\* the fallback ran after "Field 'addSubIssue' doesn't exist" and linked the
\* two issues
C3_Witness ==
    /\ last.op = "add_sub_issue"
    /\ ~last.args.native.ok
    /\ ~Includes(last.args.native.message, <<"U","n","k","n","o","w","n"," ","f","i","e","l","d">>)
    /\ last.ok
    /\ last.result.relationship = "tracks"
    /\ input.p # input.c
    /\ parentMatch(issues[input.c].body) = input.p
    /\ TaskLinesFor(issues[input.p].body, input.c) >= 1

NotFound(message) == McpError("InvalidRequest", message)

OnlyReads(calls) ==
    \A i \in 1..Len(calls) : calls[i].call \in {"issue", "issues"}

\* C7: link (and set_parent) with a parent or child that does not resolve
\* fails with an InvalidRequest not-found error and has written nothing;
\* hierarchy of a missing issue fails with not-found; add_sub_issue with a
\* missing issue fails with not-found, naming the parent when both are
\* missing, and has not tried the native call.
C7_NotFoundBeforeWrite ==
    [][ IsCall =>
          /\ ( /\ last'.op \in {"link_issues", "set_parent", "add_sub_issue"}
               /\ ~Exists(input.p) \/ ~Exists(input.c) ) =>
                  /\ ~last'.ok
                  /\ last'.result =
                        (IF ~Exists(input.p)
                         THEN NotFound(<<"P","a","r","e","n","t"," ","i","s","s","u","e"," ","n","o","t"," ","f","o","u","n","d">>)
                         ELSE NotFound(<<"C","h","i","l","d"," ","i","s","s","u","e"," ","n","o","t"," ","f","o","u","n","d">>))
                  /\ issues' = issues
                  /\ OnlyReads(last'.calls)
          /\ ( /\ last'.op = "get_issue_hierarchy"
               /\ ~Exists(last'.args.n) ) =>
                  /\ ~last'.ok
                  /\ last'.result = NotFound(<<"I","s","s","u","e"," ","n","o","t"," ","f","o","u","n","d">>)
                  /\ issues' = issues ]_vars

\* a link whose parent resolved and whose child did not: it failed and no
\* issue carries a comment
C7_Witness ==
    /\ last.op = "link_issues"
    /\ Exists(input.p)
    /\ ~Exists(input.c)
    /\ ~last.ok
    /\ last.result = NotFound(<<"C","h","i","l","d"," ","i","s","s","u","e"," ","n","o","t"," ","f","o","u","n","d">>)
    /\ \A n \in DOMAIN issues : issues[n].comments = << >>

\* C8: after a successful link(p, c, tracks) or set_parent(c, p), c's body
\* holds exactly one parent block and it names p; a body without the text
\* "**Parent:**" got the block appended to it unchanged; and
\* hierarchy(c).parents names p and no other issue (stated here for two
\* distinct issues).
C8_ParentBlock ==
    [][ ( /\ IsCall
          /\ input.p # input.c
          /\ IsTracksLink(last') \/ (last'.op = "set_parent" /\ last'.ok) ) =>
            LET old == issues[input.c].body
                new == issues'[input.c].body
                h == getIssueHierarchy(issues', input.c)
            IN  /\ Occurrences(new, <<"*","*","P","a","r","e","n","t",":","*","*">>) = 1
                /\ parentMatch(new) = input.p
                /\ ~Includes(old, <<"*","*","P","a","r","e","n","t",":","*","*">>) =>
                      new = old \o parentRef(input.p, issues[input.p].title)
                /\ h.ok
                /\ Numbers(h.value.parents) = <<input.p>> ]_vars

\* the comments of issue n that are among its CommentsFirst newest
RecentComments(n) ==
    LET cs == issues[n].comments
    IN  {k \in 1..Len(cs) : k > Len(cs) - CommentsFirst}

\* C12: for every issue n, a "Tracks #c" reference to an existing issue c in
\* one of the CommentsFirst most recent comments of n is discovered:
\* hierarchy(n).children holds an entry with number c, however many older
\* comments n has.
C12_RecentWindow ==
    \A n \in DOMAIN issues :
        \A k \in RecentComments(n) :
            \A i \in tracksMatches(issues[n].comments[k]) :
                LET c == matchedNumber(issues[n].comments[k], i)
                    h == getIssueHierarchy(issues, n)
                IN  Exists(c) => (h.ok /\ Names(h.value.children, c))

\* the call recorded in l is a link_issues call of kind blocks or related that
\* succeeded
IsOtherLink(l) ==
    /\ l.op = "link_issues"
    /\ l.ok
    /\ linkTypeOrDefault(l.args.linkType) \in {"blocks", "related"}

\* the numbers of the parents and of the children that hierarchy(n) returns
\* from the repository iss
ViewOf(iss, n) ==
    LET h == getIssueHierarchy(iss, n)
    IN  [parents |-> Numbers(h.value.parents),
         children |-> Numbers(h.value.children)]

\* C13: a successful link of kind blocks or related changes the parents and
\* the children that hierarchy returns for no issue; in particular children
\* of p and parents of c that were empty before the link are empty after it.
C13_OnlyTracksReadBack ==
    [][ (IsCall /\ IsOtherLink(last')) =>
            /\ \A n \in DOMAIN issues : ViewOf(issues', n) = ViewOf(issues, n)
            /\ ViewOf(issues, input.p).children = << >> =>
                  ViewOf(issues', input.p).children = << >>
            /\ ViewOf(issues, input.c).parents = << >> =>
                  ViewOf(issues', input.c).parents = << >> ]_vars

\* a blocks link and then a related link were made between two issues that
\* had no marker: both comments are on the parent, and the parent has no
\* children and the child no parents
C13_Witness ==
    /\ IsOtherLink(last)
    /\ ops = 2
    /\ input.p # input.c
    /\ \E k \in 1..Len(issues[input.p].comments) :
          issues[input.p].comments[k] = <<"B","l","o","c","k","s"," ","#">> \o toString(input.c)
    /\ \E k \in 1..Len(issues[input.p].comments) :
          issues[input.p].comments[k] = <<"R","e","l","a","t","e","d"," ","t","o"," ","#">> \o toString(input.c)
    /\ ViewOf(issues, input.p).children = << >>
    /\ ViewOf(issues, input.c).parents = << >>

\* C14: when both issues exist and the native call fails with a message that
\* contains neither "Unknown field" nor "Field 'addSubIssue' doesn't exist",
\* add_sub_issue throws that very error (the host receives it as the boundary
\* renders it), its only external calls are the lookup and the native call,
\* so link was not invoked, and the repository is unchanged.
C14_NativeFailurePropagates ==
    [][ ( /\ IsCall
          /\ last'.op = "add_sub_issue"
          /\ Exists(input.p) /\ Exists(input.c)
          /\ ~last'.args.native.ok
          /\ ~Includes(last'.args.native.message, <<"U","n","k","n","o","w","n"," ","f","i","e","l","d">>)
          /\ ~Includes(last'.args.native.message, <<"F","i","e","l","d"," ","'","a","d","d","S","u","b","I","s","s","u","e","'"," ","d","o","e","s","n","'","t"," ","e","x","i","s","t">>) ) =>
            LET thrown == [code |-> "Error",
                           message |-> last'.args.native.message]
                handled == addSubIssue(issues, input.p, input.c, last'.args.native)
            IN  /\ ~handled.ok
                /\ handled.error = thrown
                /\ ~last'.ok
                /\ last'.result = atBoundary(Thrown(issues, << >>, thrown)).error
                /\ last'.calls = <<Call("issues", input.p),
                                   Call("addSubIssue", input.p)>>
                /\ issues' = issues ]_vars

\* the native call failed with "Resource not accessible by integration"
\* between two existing issues and the host received an InternalError
C14_Witness ==
    /\ last.op = "add_sub_issue"
    /\ Exists(input.p) /\ Exists(input.c)
    /\ input.p # input.c
    /\ ~last.args.native.ok
    /\ last.args.native.message = <<"R","e","s","o","u","r","c","e"," ","n","o","t"," ","a","c","c","e","s","s","i","b","l","e"," ","b","y"," ","i","n","t","e","g","r","a","t","i","o","n">>
    /\ ~last.ok
    /\ last.result.code = "InternalError"
    /\ \A n \in DOMAIN issues : issues[n].comments = << >>

\* the places of body where a checklist line "- [ ] #<number>" or
\* "- [x] #<number>" starts
TaskLineStarts(body) ==
    {i \in 1..Len(body) :
        /\ i = 1 \/ body[i - 1] = "\n"
        /\ StartsAt(body, <<"-"," ","["," ","]"," ","#">>, i) \/ StartsAt(body, <<"-"," ","[","x","]"," ","#">>, i)
        /\ i + 7 <= Len(body)
        /\ IsDigit(body[i + 7])}

\* C17: after a successful link(p, c, tracks) between two distinct issues,
\* p's body holds a checklist line for #c; a body that had a task-list block
\* and no checklist line for #c is the old body with the one line
\* "- [ ] #c <title>" inserted behind a checklist line; a body without a
\* task-list block is the old body behind a "### Tasks" section that holds
\* that one line.
C17_ChecklistAugmentation ==
    [][ (IsCall /\ IsTracksLink(last') /\ input.p # input.c) =>
            LET old == issues[input.p].body
                new == issues'[input.p].body
                line == <<"-"," ","["," ","]"," ","#">> \o toString(input.c) \o <<" ">>
                            \o issues[input.c].title \o <<"\n">>
            IN  /\ TaskLinesFor(new, input.c) >= 1
                /\ (hasTaskList(old) /\ TaskLinesFor(old, input.c) = 0) =>
                      \E i \in 1..Len(old) :
                          /\ old[i] = "\n"
                          /\ \E b \in TaskLineStarts(old) :
                                b <= i /\ \A j \in b..(i - 1) : old[j] # "\n"
                          /\ new = SubSeq(old, 1, i) \o line
                                      \o SubSeq(old, i + 1, Len(old))
                /\ ~hasTaskList(old) =>
                      new = <<"#","#","#"," ","T","a","s","k","s","\n">> \o line \o <<"\n">> \o old ]_vars

\* the comment a link of the given kind leaves on the parent and on the child
StatedParentComment(kind, c) ==
    (CASE kind = "tracks" -> <<"T","r","a","c","k","s"," ","#">>
       [] kind = "blocks" -> <<"B","l","o","c","k","s"," ","#">>
       [] kind = "related" -> <<"R","e","l","a","t","e","d"," ","t","o"," ","#">>) \o toString(c)

StatedChildComment(kind, p) ==
    (CASE kind = "tracks" -> <<"T","r","a","c","k","e","d"," ","b","y"," ","#">>
       [] kind = "blocks" -> <<"B","l","o","c","k","e","d"," ","b","y"," ","#">>
       [] kind = "related" -> <<"R","e","l","a","t","e","d"," ","t","o"," ","#">>) \o toString(p)

\* C19: a successful link makes its external calls in the order fetch parent,
\* fetch child, comment on parent, comment on child, and for kind tracks only
\* rewrite child body, rewrite parent body; the comment added to the parent
\* and the one added to the child have the wording of the kind, and a link
\* without a kind is a tracks link.
C19_WriteOrder ==
    [][ (IsCall /\ last'.op = "link_issues" /\ last'.ok) =>
            LET p == input.p
                c == input.c
                kind == IF last'.args.linkType = "undefined" THEN "tracks"
                        ELSE last'.args.linkType
                onParent == StatedParentComment(kind, c)
                onChild == StatedChildComment(kind, p)
            IN  /\ last'.calls =
                      <<Call("issue", p), Call("issue", c),
                        Call("addComment", p), Call("addComment", c)>>
                      \o (IF kind = "tracks"
                          THEN <<Call("updateIssue", c), Call("updateIssue", p)>>
                          ELSE << >>)
                /\ last'.result.relationship = kind
                /\ p # c =>
                      /\ issues'[p].comments = Append(issues[p].comments, onParent)
                      /\ issues'[c].comments = Append(issues[c].comments, onChild)
                /\ p = c =>
                      issues'[p].comments =
                          issues[p].comments \o <<onParent, onChild>> ]_vars

\* a link made without a kind between two distinct issues: six calls, "Tracks"
\* on the parent and "Tracked by" on the child
C19_Witness ==
    /\ last.op = "link_issues"
    /\ last.ok
    /\ last.args.linkType = "undefined"
    /\ input.p # input.c
    /\ Len(last.calls) = 6
    /\ last.calls[5] = Call("updateIssue", input.c)
    /\ issues[input.p].comments # << >>
    /\ issues[input.p].comments[Len(issues[input.p].comments)]
          = <<"T","r","a","c","k","s"," ","#">> \o toString(input.c)
    /\ issues[input.c].comments # << >>
    /\ issues[input.c].comments[Len(issues[input.c].comments)]
          = <<"T","r","a","c","k","e","d"," ","b","y"," ","#">> \o toString(input.p)

\* C20: a successful link of kind blocks or related adds one comment to p and
\* one to c (two to the issue when p = c), adds none to any other issue,
\* changes no body and makes no updateIssue call; a successful link of kind
\* tracks makes the two updateIssue calls.
C20_NonTracksFrame ==
    [][ (IsCall /\ last'.op = "link_issues" /\ last'.ok) =>
            LET p == input.p
                c == input.c
                added(n) == Len(issues'[n].comments) - Len(issues[n].comments)
                rewrites == {k \in 1..Len(last'.calls) :
                                last'.calls[k].call = "updateIssue"}
            IN  IF last'.args.linkType \in {"blocks", "related"}
                THEN /\ \A n \in DOMAIN issues : issues'[n].body = issues[n].body
                     /\ rewrites = {}
                     /\ \A n \in DOMAIN issues :
                           added(n) = (IF n = p THEN 1 ELSE 0)
                                        + (IF n = c THEN 1 ELSE 0)
                ELSE Cardinality(rewrites) = 2 ]_vars

\* a related link between two distinct issues, one of which had a body: each
\* carries one comment and the body is as it was
C20_Witness ==
    /\ last.op = "link_issues"
    /\ last.ok
    /\ last.args.linkType = "related"
    /\ ops = 1
    /\ input.p # input.c
    /\ Len(issues[input.p].comments) = 1
    /\ Len(issues[input.c].comments) = 1
    /\ \E b \in ParentBodies : issues[input.p].body = b

\* the numbers that "Tracks #<number>" names in the comments hierarchy(n)
\* fetches
TrackedIn(n) ==
    LET cs == fetchComments(issues, n)
    IN  {matchedNumber(cs[k], i) :
            <<k, i>> \in UNION {{k} \X tracksMatches(cs[k]) : k \in 1..Len(cs)}}

\* C21: for every issue n, hierarchy(n).children holds no two entries with
\* the same number, and it holds an entry for every number that resolves to
\* an issue and that the fetched comments name with "Tracks #", however often
\* they name it.
C21_ChildrenDistinct ==
    \A n \in DOMAIN issues :
        LET children == getIssueHierarchy(issues, n).value.children
        IN  /\ \A i, j \in 1..Len(children) :
                  children[i].number = children[j].number => i = j
            /\ {children[i].number : i \in 1..Len(children)}
                  = {c \in TrackedIn(n) : Exists(c)}

\* after two tracks links of the same pair the parent carries two comments
\* that name the child and its hierarchy holds the child once
C21_Witness ==
    /\ IsTracksLink(last)
    /\ ops = 2
    /\ input.p # input.c
    /\ Cardinality({k \in 1..Len(issues[input.p].comments) :
            issues[input.p].comments[k] = <<"T","r","a","c","k","s"," ","#">> \o toString(input.c)}) = 2
    /\ Numbers(getIssueHierarchy(issues, input.p).value.children) = <<input.c>>

C27_ChildBecomesEpic ==
    IsTracksLink(last) =>
        getIssueHierarchy(issues, last.args.c).value.current.type = "epic"

\* C27 amended: right after a successful link(p, c, tracks) of two distinct
\* issues, c's body holds the text "**Parent:**" and
\* hierarchy(c).current.type is epic, whatever c's title and body were.
C27_DistinctChildBecomesEpic ==
    (IsTracksLink(last) /\ last.args.p # last.args.c) =>
        /\ Includes(issues[last.args.c].body, <<"*","*","P","a","r","e","n","t",":","*","*">>)
        /\ getIssueHierarchy(issues, last.args.c).value.current.type = "epic"

\* issue 12 "Docs", which the classifier takes for documentation by its
\* title, was linked under issue 1 and is now read back as an epic
C27_Witness ==
    /\ IsTracksLink(last)
    /\ input.p = 1 /\ input.c = 12
    /\ detectIssueType(issues[12].title, << >>) = "documentation"
    /\ getIssueHierarchy(issues, 12).value.current.type = "epic"

-----------------------------------------------------------------------------
(* Claims about the classifier *)

\* the categories in the fixed order of the specification, with their keywords
CategoryOrder == <<"epic", "feature", "bug", "task", "story", "documentation">>

KeywordsOf(cat) ==
    CASE cat = "epic" -> { <<"e","p","i","c">>, <<"i","n","i","t","i","a","t","i","v","e">>, <<"m","i","l","e","s","t","o","n","e">>, <<"p","a","r","e","n","t">> }
      [] cat = "feature" -> { <<"f","e","a","t","u","r","e">>, <<"e","n","h","a","n","c","e","m","e","n","t">>, <<"n","e","w"," ","f","u","n","c","t","i","o","n","a","l","i","t","y">>,
                              <<"a","d","d"," ","s","u","p","p","o","r","t">>, <<"i","m","p","l","e","m","e","n","t">> }
      [] cat = "bug" -> { <<"b","u","g">>, <<"f","i","x">>, <<"e","r","r","o","r">>, <<"i","s","s","u","e">>, <<"b","r","o","k","e","n">>, <<"c","r","a","s","h">> }
      [] cat = "task" -> { <<"t","a","s","k">>, <<"c","h","o","r","e">>, <<"r","e","f","a","c","t","o","r">>, <<"u","p","d","a","t","e">>, <<"c","l","e","a","n">> }
      [] cat = "story" -> { <<"s","t","o","r","y">>, <<"u","s","e","r"," ","s","t","o","r","y">>, <<"a","s"," ","a"," ","u","s","e","r">>, <<"i"," ","w","a","n","t">> }
      [] cat = "documentation" -> { <<"d","o","c","u","m","e","n","t","a","t","i","o","n">>, <<"d","o","c","s">>, <<"r","e","a","d","m","e">>, <<"g","u","i","d","e">> }

\* ranks of the categories one of whose keywords is a substring of text
MatchingRanks(text) ==
    {k \in 1..Len(CategoryOrder) :
        \E kw \in KeywordsOf(CategoryOrder[k]) : Includes(text, kw)}

\* the reference classifier on an already joined and lower-cased text
RefClassify(text) ==
    LET m == MatchingRanks(text)
    IN  IF m = {} THEN "none"
        ELSE CategoryOrder[CHOOSE k \in m : \A j \in m : k <= j]

\* C4: when the lower-cased text of (title, body) contains keywords of two or
\* more categories, the classifier returns the category that comes first in
\* the order epic > feature > bug > task > story > documentation.
C4_TieBreak ==
    last.op = "classify" =>
        LET m == MatchingRanks(toLowerCase(input.title \o <<" ">> \o input.body))
        IN  Cardinality(m) >= 2 =>
                /\ last.type \in Types \ {"none"}
                /\ \E k \in m : /\ CategoryOrder[k] = last.type
                                /\ \A j \in m : k <= j

\* a title with an epic and a feature keyword is classified epic, and a title
\* with a task keyword and a documentation body is classified task
C4_Witness ==
    /\ last.op = "classify"
    /\ \/ /\ input.title = <<"E","p","i","c"," ","i","m","p","l","e","m","e","n","t">>
          /\ last.type = "epic"
       \/ /\ input.title = <<"u","p","d","a","t","e">>
          /\ input.body = <<"d","o","c","u","m","e","n","t","a","t","i","o","n">>
          /\ last.type = "task"

\* C5 as stated: the classifier equals the reference function applied to the
\* lower-cased plain concatenation of title and body.
C5_PlainConcatenation ==
    last.op = "classify" =>
        last.type = RefClassify(toLowerCase(input.title \o input.body))

\* C5 amended: the classifier equals the reference function applied to the
\* lower-cased text "title, one space, body" (missing body = empty text); it
\* returns none exactly when no keyword is a substring of that text.
C5_SpaceJoined ==
    last.op = "classify" =>
        LET text == toLowerCase(input.title \o <<" ">> \o input.body)
        IN  /\ last.type = RefClassify(text)
            /\ (last.type = "none") <=> (MatchingRanks(text) = {})

\* a keyword that only the space at the boundary completes is matched, and
\* one that the space splits is missed
C5_Witness ==
    /\ last.op = "classify"
    /\ \/ /\ input.title = <<"n","e","w">>
          /\ input.body = <<"f","u","n","c","t","i","o","n","a","l","i","t","y">>
          /\ last.type = "feature"
       \/ /\ input.title = <<"e","p">>
          /\ input.body = <<"i","c">>
          /\ last.type = "none"

\* the label list the specification describes: the caller's labels in their
\* order, then the type when there is one and no label equals it
StatedLabels(labels, type) ==
    IF type # "none" /\ \A i \in 1..Len(labels) : labels[i] # type
    THEN labels \o <<type>>
    ELSE labels

\* C6: the label list create_issue uses is the caller's list in its order,
\* followed by the detected type iff the type is not none and no label of
\* the list equals it exactly; the new issue carries the labels of that list
\* that the repository defines.
C6_AutoLabels ==
    last.op = "create_issue" =>
        LET type == detectIssueType(last.args.title, last.args.body)
            used == autoLabels(last.args.labels, type)
        IN  /\ used = StatedLabels(last.args.labels, type)
            /\ SubSeq(used, 1, Len(last.args.labels)) = last.args.labels
            /\ type = "none" => used = last.args.labels
            /\ last.args = input
            /\ last.ok
            /\ last.result.issue.labels = labelIds(StatedLabels(last.args.labels, type))
            /\ issues[last.result.issue.number].labels = last.result.issue.labels

\* an issue created with the label "Bug" and detected as bug carries both
\* "Bug" and "bug"; one created with "bug" carries it once
C6_Witness ==
    /\ last.op = "create_issue"
    /\ \/ /\ last.args.labels = <<"Bug">>
          /\ last.result.issue.labels = <<"Bug", "bug">>
       \/ /\ last.args.labels = <<"urgent", "bug">>
          /\ detectIssueType(last.args.title, last.args.body) = "bug"
          /\ last.result.issue.labels = <<"bug">>

-----------------------------------------------------------------------------
(* Claims about the children sort *)

\* the priority the specification gives each annotated type
StatedPriority(type) ==
    CASE type = "epic" -> 0
      [] type = "feature" -> 1
      [] type = "story" -> 2
      [] type = "task" -> 3
      [] type = "bug" -> 4
      [] type = "documentation" -> 5
      [] type = "none" -> 6

\* C9: the children are returned in the order of the priority of their type,
\* epic(0) < feature(1) < story(2) < task(3) < bug(4) < documentation(5) <
\* unclassified(6), and children of equal priority keep their discovery order;
\* the result holds exactly the discovered children.
C9_ChildrenOrdered ==
    last.op = "sort" =>
        LET r == last.children
        IN  /\ Len(r) = Len(input.children)
            /\ \A i \in 1..Len(r) : r[i] = input.children[r[i].number]
            /\ \A i, j \in 1..Len(r) : i < j =>
                  \/ StatedPriority(r[i].type) < StatedPriority(r[j].type)
                  \/ /\ StatedPriority(r[i].type) = StatedPriority(r[j].type)
                     /\ r[i].number < r[j].number

\* a sort that had to move a child ahead of an earlier one and had to keep
\* two children of equal priority in place
C9_Witness ==
    /\ last.op = "sort"
    /\ Len(input.children) = MaxChildren
    /\ \E i, j \in 1..Len(input.children) :
          /\ i < j
          /\ typeOrder(input.children[i].type) > typeOrder(input.children[j].type)
    /\ \E i, j \in 1..Len(input.children) :
          /\ i < j
          /\ input.children[i].type = input.children[j].type

ExampleChildren == AsChildren(<<"bug", "epic", "task", "epic">>)

TypesOf(s) == [i \in 1..Len(s) |-> s[i].type]

\* C10 as stated: children discovered as [bug, epic, task, epic] are returned
\* as [epic, epic, bug, task].
C10_ExampleAsStated ==
    (last.op = "sort" /\ input.children = ExampleChildren) =>
        TypesOf(last.children) = <<"epic", "epic", "bug", "task">>

\* C10 amended: children discovered as [bug, epic, task, epic] are returned
\* as [epic, epic, task, bug], the two epics in their discovery order.
C10_ExampleSorted ==
    (last.op = "sort" /\ input.children = ExampleChildren) =>
        last.children = << [number |-> 2, type |-> "epic"],
                           [number |-> 4, type |-> "epic"],
                           [number |-> 3, type |-> "task"],
                           [number |-> 1, type |-> "bug"] >>

C10_Witness ==
    /\ last.op = "sort"
    /\ input.children = ExampleChildren
    /\ Len(last.children) = 4

-----------------------------------------------------------------------------
(* Claims about rejected external calls and the tool-call boundary *)

\* the first position in faults, which is not empty
FirstOf(faults) == CHOOSE k \in faults : \A j \in faults : k <= j

\* C11: when the fetch of hierarchy's own issue n succeeds, hierarchy(n)
\* succeeds whatever happens to the later fetches; parents holds the issue
\* the body marker names if its fetch was not rejected and it resolves, and
\* is empty otherwise; children holds exactly the discovered numbers whose
\* fetch was not rejected and that resolve.
C11_SilentAbsorption ==
    ( /\ last.op = "get_issue_hierarchy"
      /\ Exists(last.args.n)
      /\ 1 \notin last.args.faults ) =>
        LET n == last.args.n
            faults == last.args.faults
            named == parentMatch(issues[n].body)
            found == childNumbers(fetchComments(issues, n))
            first == IF named # NoMatch THEN 3 ELSE 2
        IN  /\ last.ok
            /\ Numbers(last.result.parents) =
                  (IF named # NoMatch /\ Exists(named) /\ 2 \notin faults
                   THEN <<named>> ELSE << >>)
            /\ {last.result.children[i].number :
                    i \in 1..Len(last.result.children)}
                  = {found[i] : i \in {j \in 1..Len(found) :
                                          /\ Exists(found[j])
                                          /\ (first + j - 1) \notin faults}}
            /\ Len(last.result.children) <= Len(found)

\* hierarchy of issue 1, which names parent 2 and tracks 12, 2 and the
\* missing 7, when the fetch of child 12 is rejected: it succeeds with
\* parent 2 and the child 2 alone
C11_Witness ==
    /\ last.op = "get_issue_hierarchy"
    /\ last.args.n = 1
    /\ last.args.faults = {3}
    /\ last.ok
    /\ Numbers(last.result.parents) = <<2>>
    /\ Numbers(last.result.children) = <<2>>

\* C15: a tool call one of whose external calls was rejected fails; set
\* aside are the parent and child fetches of hierarchy and the parent body
\* rewrite of link.
C15_FailurePropagates ==
    /\ (last.op \in {"link_issues", "create_issue"}) =>
          ((\E k \in last.args.faults :
                /\ k <= Len(last.calls)
                /\ ~(last.op = "link_issues" /\ k = 6)) => ~last.ok)
    /\ (last.op = "get_issue_hierarchy" /\ 1 \in last.args.faults) => ~last.ok

\* C16: a name outside the declared tools fails with MethodNotFound, without
\* an external call and without a change; a failed call of a declared tool
\* either carries the handler's not-found error as InvalidRequest, and then
\* no attempted call was rejected, or it carries InternalError, and then its
\* last call was rejected and the message is "GitHub API error: ", the
\* message of the rejection, and the hint if and only if that message
\* contains "Bad credentials".
C16_BoundaryErrors ==
    [][ IsCall =>
          /\ last'.op = "unknown_tool" =>
                /\ ~last'.ok
                /\ last'.result = McpError("MethodNotFound",
                                     <<"U","n","k","n","o","w","n"," ","t","o","o","l",":"," ">> \o last'.args.name)
                /\ last'.calls = << >>
                /\ issues' = issues
          /\ (last'.op # "unknown_tool" /\ ~last'.ok) =>
                \/ /\ last'.result.code = "InvalidRequest"
                   /\ last'.result.message \in
                         { <<"P","a","r","e","n","t"," ","i","s","s","u","e"," ","n","o","t"," ","f","o","u","n","d">>, <<"C","h","i","l","d"," ","i","s","s","u","e"," ","n","o","t"," ","f","o","u","n","d">>,
                           <<"I","s","s","u","e"," ","n","o","t"," ","f","o","u","n","d">> }
                   /\ \A k \in last'.args.faults : k > Len(last'.calls)
                \/ /\ last'.result.code = "InternalError"
                   /\ Len(last'.calls) \in last'.args.faults
                   /\ last'.result.message =
                         <<"G","i","t","H","u","b"," ","A","P","I"," ","e","r","r","o","r",":"," ">> \o last'.args.message \o
                         (IF Includes(last'.args.message, <<"B","a","d"," ","c","r","e","d","e","n","t","i","a","l","s">>)
                          THEN <<"."," ","P","l","e","a","s","e"," ","c","h","e","c","k"," ","t","h","a","t"," ","y","o","u","r"," ","G","i","t","H","u","b"," ","t","o","k","e","n"," ","i","s"," ","v","a","l","i","d"," ","a","n","d"," ","h","a","s"," ","t","h","e"," ","r","e","q","u","i","r","e","d"," ","p","e","r","m","i","s","s","i","o","n","s"," ","(","r","e","p","o",","," ","p","r","o","j","e","c","t",","," ","r","e","a","d",":","o","r","g",")",".">>
                          ELSE << >>) ]_vars

\* a link whose fetch of the child was rejected with "Server error": the host
\* received InternalError "GitHub API error: Server error"
C16_Witness ==
    /\ last.op = "link_issues"
    /\ ~last.ok
    /\ last.args.faults = {2}
    /\ last.result = McpError("InternalError", <<"G","i","t","H","u","b"," ","A","P","I"," ","e","r","r","o","r",":"," ","S","e","r","v","e","r"," ","e","r","r","o","r">>)

\* C18: when the first rejected call of a link between two existing issues is
\* at step k, the link fails with that rejection, its calls are the first k
\* of the fixed order and no more, and the repository holds what the steps
\* before k wrote: nothing up to the parent comment, the parent comment at
\* the child comment, both comments at the child body rewrite, and both
\* comments and the new child body at the parent body rewrite.
C18_NonTransactional ==
    [][ ( /\ IsCall
          /\ last'.op = "link_issues"
          /\ Exists(input.p) /\ Exists(input.c)
          /\ \E k \in last'.args.faults :
                k <= (IF last'.args.linkType = "tracks" THEN 6 ELSE 4) ) =>
            LET p == input.p
                c == input.c
                kind == last'.args.linkType
                steps == IF kind = "tracks" THEN 6 ELSE 4
                k == FirstOf({j \in last'.args.faults : j <= steps})
                order == <<Call("issue", p), Call("issue", c),
                           Call("addComment", p), Call("addComment", c),
                           Call("updateIssue", c), Call("updateIssue", p)>>
                one == [issues EXCEPT
                           ![p].comments = Append(@, StatedParentComment(kind, c))]
                two == [one EXCEPT
                           ![c].comments = Append(@, StatedChildComment(kind, p))]
                whole == linkIssues(issues, p, c, kind).issues
            IN  /\ ~last'.ok
                /\ last'.result =
                      atBoundary(Thrown(issues, << >>,
                                        UpstreamError(last'.args.message))).error
                /\ last'.calls = SubSeq(order, 1, k)
                /\ k <= 3 => issues' = issues
                /\ k = 4 => issues' = one
                /\ k = 5 => issues' = two
                /\ (k = 6 /\ p # c) =>
                      issues' = [two EXCEPT ![c].body = whole[c].body] ]_vars

\* a tracks link of issue 12 under issue 1 whose comment on the child was
\* rejected: issue 1 carries "Tracks #12", issue 12 carries no comment and no
\* body was written
C18_Witness ==
    /\ last.op = "link_issues"
    /\ last.args.linkType = "tracks"
    /\ last.args.faults = {4}
    /\ input.p = 1 /\ input.c = 12
    /\ ~last.ok
    /\ Len(last.calls) = 4
    /\ issues[1].comments # << >>
    /\ issues[1].comments[Len(issues[1].comments)] = <<"T","r","a","c","k","s"," ","#","1","2">>
    /\ issues[12].comments = << >>
    /\ \A n \in {1, 12} : issues[n].body = BaseIssues[n].body

\* C22: a create_issue call with a parent number, none of whose creating
\* calls is rejected, returns success and the new issue exists; its calls are
\* the creating calls, with the createIssue mutation last and no fetch of the
\* parent among them, followed by the calls of the link, the fetch of the
\* parent first; when the link succeeded the result carries parentIssue
\* {number, relationship: tracks} and no linkError, and when it failed, the
\* parent being missing or one of its calls rejected, the result carries
\* linkError with the message of that failure and no parentIssue.
C22_CreateThenLink ==
    [][ ( /\ IsCall
          /\ last'.op = "create_issue"
          /\ last'.args.create.parentIssueNumber # NoParent
          /\ LET a == last'.args.create
                 n0 == IF a.labels # << >>
                          \/ detectIssueType(a.title, a.body) # "none"
                       THEN 3 ELSE 2
             IN  \A k \in last'.args.faults : k > n0 ) =>
            LET a == last'.args.create
                parent == a.parentIssueNumber
                faults == last'.args.faults
                n0 == IF a.labels # << >>
                         \/ detectIssueType(a.title, a.body) # "none"
                      THEN 3 ELSE 2
                new == CHOOSE n \in DOMAIN issues' : n \notin DOMAIN issues
                rejected == {k \in faults : k <= n0 + 6}
                linked == Exists(parent) /\ rejected = {}
            IN  /\ last'.ok
                /\ DOMAIN issues' = DOMAIN issues \cup {new}
                /\ new \notin DOMAIN issues
                /\ issues'[new].title = a.title
                /\ last'.result.issue.number = new
                /\ Len(last'.calls) > n0
                /\ last'.calls[n0] = Call("createIssue", new)
                /\ \A k \in 1..n0 : last'.calls[k].call # "issue"
                /\ last'.calls[n0 + 1] = Call("issue", parent)
                /\ linked =>
                      /\ "linkError" \notin DOMAIN last'.result
                      /\ last'.result.parentIssue =
                            [number |-> parent, relationship |-> "tracks"]
                      /\ parentMatch(issues'[new].body) = parent
                /\ ~linked =>
                      /\ "parentIssue" \notin DOMAIN last'.result
                      /\ last'.result.linkError =
                            (IF (n0 + 1) \notin faults /\ ~Exists(parent)
                             THEN <<"P","a","r","e","n","t"," ","i","s","s","u","e"," ","n","o","t"," ","f","o","u","n","d">>
                             ELSE last'.args.message) ]_vars

\* an issue was created with the missing issue as its parent: the call
\* succeeded, issue 13 exists and the result carries the not-found message
C22_Witness ==
    /\ last.op = "create_issue"
    /\ last.args.create.parentIssueNumber = MissingNumber
    /\ last.args.faults = {}
    /\ last.ok
    /\ 13 \in DOMAIN issues
    /\ last.result.linkError = <<"P","a","r","e","n","t"," ","i","s","s","u","e"," ","n","o","t"," ","f","o","u","n","d">>

-----------------------------------------------------------------------------
(* Claims about an issue that changes its parent *)

\* C28: a tool call removes no comment and no checklist line; and when
\* set_parent(c, p2) succeeds right after a successful link(p1, c, tracks)
\* with p2 different from p1, hierarchy(c).parents names p2 alone while
\* hierarchy(p1).children and hierarchy(p2).children both hold c.
C28_StaleEdges ==
    [][ IsCall =>
          /\ \A n \in DOMAIN issues :
                /\ Len(issues'[n].comments) >= Len(issues[n].comments)
                /\ SubSeq(issues'[n].comments, 1, Len(issues[n].comments))
                      = issues[n].comments
                /\ \A m \in DOMAIN issues :
                      TaskLinesFor(issues'[n].body, m)
                          >= TaskLinesFor(issues[n].body, m)
          /\ ( /\ IsTracksLink(last)
               /\ last.args.p = input.p1
               /\ last'.op = "set_parent"
               /\ last'.ok ) =>
                /\ Numbers(getIssueHierarchy(issues', input.c).value.parents)
                      = <<input.p2>>
                /\ Names(getIssueHierarchy(issues', input.p1).value.children,
                         input.c)
                /\ Names(getIssueHierarchy(issues', input.p2).value.children,
                         input.c) ]_vars

\* the places of body where a marker "**Parent:** #<number>" starts
MarkerPlaces(body) ==
    {i \in 1..Len(body) :
        /\ StartsAt(body, <<"*","*","P","a","r","e","n","t",":","*","*"," ","#">>, i)
        /\ i + 13 <= Len(body)
        /\ IsDigit(body[i + 13])}

\* the number the marker at place i of body names
MarkerNumber(body, i) ==
    parseInt(SubSeq(body, i + 13, DigitRunEnd(body, i + 13)))

\* C30: for every issue n, hierarchy(n).parents holds no entry when n's body
\* holds no marker, and otherwise at most the one entry of the issue that the
\* first marker in the body names, however often and under however many
\* parents n was linked.
C30_AtMostOneParent ==
    \A n \in DOMAIN issues :
        LET parents == getIssueHierarchy(issues, n).value.parents
            places == MarkerPlaces(issues[n].body)
        IN  /\ Len(parents) <= 1
            /\ places = {} => parents = << >>
            /\ places # {} =>
                  LET first == CHOOSE i \in places : \A j \in places : i <= j
                      named == MarkerNumber(issues[n].body, first)
                  IN  Numbers(parents) =
                          (IF Exists(named) THEN <<named>> ELSE << >>)

\* the issue was linked under its first parent and then given the second:
\* its body holds two markers that name different issues, and its hierarchy
\* holds the one parent that the first marker names
C30_Witness ==
    /\ last.op = "set_parent"
    /\ last.ok
    /\ ops = 2
    /\ LET body == issues[input.c].body
           places == MarkerPlaces(body)
       IN  /\ Cardinality(places) = 2
           /\ \E i, j \in places : MarkerNumber(body, i) # MarkerNumber(body, j)
           /\ Len(getIssueHierarchy(issues, input.c).value.parents) = 1

-----------------------------------------------------------------------------
(* Claims about two link calls in flight at once *)

\* both calls returned success
BothReturned == \A k \in 1..2 : last.at[k] = "returned"

\* link(p, c1, tracks) and link(p, c2, tracks) with c1 # c2
SameParent ==
    /\ input[1].p = input[2].p
    /\ input[1].c # input[2].c
    /\ \A k \in 1..2 : input[k].linkType = "tracks" /\ input[k].c # input[k].p

\* link(a, b, tracks) and link(b, c, tracks) on three distinct issues
Chained ==
    /\ input[1].c = input[2].p
    /\ Cardinality({input[1].p, input[1].c, input[2].c}) = 3
    /\ \A k \in 1..2 : input[k].linkType = "tracks"

\* C23: when link(p, c1, tracks) and link(p, c2, tracks), c1 # c2, have both
\* returned success, p's body is the body that one of the two calls built
\* from the body it read at its own start (the last writer wins): it holds
\* no more checklist lines for the other call's child than that snapshot held.
C23_LastWriterWins ==
    (BothReturned /\ SameParent) =>
        \E k \in 1..2 :
            LET o == 3 - k
                p == input[k].p
            IN  /\ issues[p].body =
                      updatedParentBody(last.parentIssue[k].body, input[k].c,
                                        last.childIssue[k].title)
                /\ TaskLinesFor(issues[p].body, input[o].c) =
                      TaskLinesFor(last.parentIssue[k].body, input[o].c)

\* both calls on one parent returned success and the parent's body holds a
\* checklist line for one of the two children only
C23_Witness ==
    /\ BothReturned
    /\ SameParent
    /\ \E k \in 1..2 :
          /\ TaskLinesFor(issues[input[k].p].body, input[k].c) = 1
          /\ TaskLinesFor(issues[input[k].p].body, input[3 - k].c) = 0

\* C24: when link(p, c1, tracks) and link(p, c2, tracks) have both returned
\* success, in whatever order their steps ran, and p had fewer than 99
\* comments before them, hierarchy(p).children names both c1 and c2.
C24_ChildDiscovery ==
    ( /\ BothReturned
      /\ SameParent
      /\ Len(issues[input[1].p].comments) - 2 < CommentsFirst - 1 ) =>
        \A k \in 1..2 :
            Names(getIssueHierarchy(issues, input[1].p).value.children,
                  input[k].c)

\* both calls returned success on a parent that had 98 comments, its body
\* holds a checklist line for one child only, and its hierarchy names both
C24_Witness ==
    /\ BothReturned
    /\ SameParent
    /\ Len(issues[input[1].p].comments) = CommentsFirst
    /\ TaskLinesFor(issues[input[1].p].body, input[1].c)
          + TaskLinesFor(issues[input[1].p].body, input[2].c) = 1
    /\ \A k \in 1..2 :
          Names(getIssueHierarchy(issues, input[1].p).value.children,
                input[k].c)

\* C25: when link(a, b, tracks) and link(b, c, tracks) have both returned
\* success, b's body is either the body the first call built from b's body
\* as it read it (with the parent marker) or the body the second call built
\* from b's body as it read it (with the checklist line): the later writer
\* overwrites the earlier one.
C25_MiddleIssue ==
    (BothReturned /\ Chained) =>
        issues[input[1].c].body \in
            { updatedBody(last.childIssue[1].body,
                          parentRef(input[1].p, last.parentIssue[1].title)),
              updatedParentBody(last.parentIssue[2].body, input[2].c,
                                last.childIssue[2].title) }

\* both chained calls returned success, and b's body holds the checklist
\* line for #c but no parent marker: hierarchy(b).parents is empty
C25_Witness ==
    /\ BothReturned
    /\ Chained
    /\ TaskLinesFor(issues[input[1].c].body, input[2].c) = 1
    /\ ~Includes(issues[input[1].c].body, <<"*","*","P","a","r","e","n","t",":","*","*">>)
    /\ getIssueHierarchy(issues, input[1].c).value.parents = << >>

\* both chained calls returned success, and b's body holds the parent marker
\* but no checklist line for #c
C25_WitnessNoLine ==
    /\ BothReturned
    /\ Chained
    /\ TaskLinesFor(issues[input[1].c].body, input[2].c) = 0
    /\ Numbers(getIssueHierarchy(issues, input[1].c).value.parents)
          = <<input[1].p>>

=============================================================================
